---- MODULE Spec2Model ----
(***************************************************************************)
(* ZoteroBridge: the ZoteroDatabase class (database.ts).  One object is    *)
(* followed through connect / accessor calls / save / disconnect, next to  *)
(* an environment that owns the database file: the Zotero process and the  *)
(* -wal / -shm sentinel files.                                             *)
(*                                                                         *)
(* The database image is the part of Zotero's schema the accessors touch:  *)
(* items, collections, collectionItems, tags, itemTags, itemNotes,         *)
(* itemAttachments, itemData (abstractNote) and itemDataValues, itemTypes, *)
(* and the title / DOI / ISBN values of items (itemFields, the join of     *)
(* itemData, itemDataValues and fields for these three fields).  There is  *)
(* one library; dateAdded is left out: no accessor modelled here reads it  *)
(* back.                                                                   *)
(*                                                                         *)
(* The table definitions belong to the file that is opened, not to this    *)
(* repository.  schema = "strict" is Zotero's own schema (itemTags.type    *)
(* NOT NULL as the README states, foreign keys declared and switched on by *)
(* connect); schema = "lenient" is a file whose tables declare neither.    *)
(***************************************************************************)
EXTENDS Integers, Sequences, FiniteSets, TLC

\* ------------------------------------------------------------------ bounds
MaxOps == 1
\* the latest process check of a call before which Zotero starts or quits
MaxFlip == 4

\* ------------------------------------------------------- program constants
NullID == 0
NullType == -1
BogusID == 9
NoteType == "note"
AttachmentType == "attachment"
EntryType == "journalArticle"

TagNames == {"t1", "t3"}
TagTypes == {0, 1}
CollNames == {"c3"}
AbstractVals == {"a1"}
NoteBodies == {"n1"}

\* generateKey: the alphabet and the length of a key
KeyChars ==
  <<"2", "3", "4", "5", "6", "7", "8", "9", "A", "B", "C", "D", "E", "F", "G",
    "H", "J", "K", "M", "N", "P", "Q", "R", "S", "T", "U", "V", "W", "X", "Y",
    "Z">>
KeyLength == 8

\* findDuplicates: itemTypeID NOT IN (1, 14)
ExcludedTypeIDs == {1, 14}

\* findSimilarByTags: LIMIT 20
SimilarLimit == 20

VARIABLES
  db,                \* this.db: the in-memory image (ClosedImage when null)
  connected,         \* this.db !== null
  readonly,          \* this.readonly
  backupPath,        \* this.backupPath: 0 = null, else index into backups
  hasUnsavedChanges, \* this.hasUnsavedChanges
  file,              \* the image stored in the database file
  backups,           \* the backup files created so far, oldest first
  storage,           \* attachment item ids whose file exists under storage/
  running,           \* the Zotero process is running
  wal,               \* a -wal or -shm file exists next to the database
  schema,            \* "strict" or "lenient", see above
  clock,             \* the wall clock, in ticks
  changed,           \* the image changed since connect / the last save
  session,           \* overwrites and backups since the database was opened
  last               \* the last call: operation, arguments, outcome

vars == <<db, connected, readonly, backupPath, hasUnsavedChanges, file,
          backups, storage, running, wal, schema, clock, changed, session,
          last>>

\* ------------------------------------------------------------------ helpers
Max(S) == CHOOSE x \in S : \A y \in S : y <= x

NextRowid(dom) == IF dom = {} THEN 1 ELSE Max(dom) + 1

Restrict(f, S) == [x \in S |-> f[x]]

RECURSIVE SeqSum(_)
SeqSum(s) == IF s = <<>> THEN 0 ELSE Head(s) + SeqSum(Tail(s))

\* The ids of a set, in ascending order (the row order of a rowid table).
RECURSIVE Ascending(_)
Ascending(S) ==
  IF S = {} THEN <<>>
  ELSE LET m == CHOOSE x \in S : \A y \in S : x <= y
       IN <<m>> \o Ascending(S \ {m})

\* ------------------------------------------------------------------- keys
\* (variant: the loop stops one character short)
KeyOfDraws_Short(draws) == [i \in 1..(KeyLength - 1) |-> KeyChars[draws[i] + 1]]

\* One call of generateKey draws KeyLength times Math.floor(Math.random() *
\* chars.length); the key is the characters at the indices drawn.
KeyOfDraws(draws) == [i \in 1..KeyLength |-> KeyChars[draws[i] + 1]]

\* The draws that differ from 0 in the last place only, numbered by it.
DrawsOf(n) == [i \in 1..KeyLength |-> IF i = KeyLength THEN n ELSE 0]

LastIndex(key) ==
  CHOOSE n \in 0..(Len(KeyChars) - 1) : KeyChars[n + 1] = key[KeyLength]

\* ------------------------------------------------------------------- image
ClosedImage ==
  [items |-> <<>>, collections |-> <<>>, collectionItems |-> {},
   tags |-> <<>>, itemTags |-> {}, itemNotes |-> <<>>,
   itemAttachments |-> <<>>, itemData |-> <<>>, itemDataValues |-> {},
   itemFields |-> {}, itemTypes |-> <<>>, integrity |-> "ok"]

Item(typ, n) ==
  [itemType |-> typ, key |-> KeyOfDraws(DrawsOf(n)), version |-> 0,
   synced |-> TRUE, dateModified |-> 0, clientDateModified |-> 0]

\* The itemTypes table of the schema the code's constants 1 and 14 are taken
\* from, and the table of a schema that numbers its types otherwise.
OldTypeIDs ==
  (NoteType :> 1 @@ AttachmentType :> 14 @@ EntryType :> 4)
NewTypeIDs ==
  (NoteType :> 28 @@ AttachmentType :> 3 @@ EntryType :> 22)

\* A library as Zotero leaves it: three entries (1, 2, 3), a note (4) under
\* entry 2, an attachment (5) under entry 1 stored as storage:a.pdf, two
\* tags, two nested collections.
BaseImage ==
  [items |-> (1 :> Item(EntryType, 1)
              @@ 2 :> Item(EntryType, 2) @@ 3 :> Item(EntryType, 3)
              @@ 4 :> Item(NoteType, 4) @@ 5 :> Item(AttachmentType, 5)),
   collections |-> (1 :> [name |-> "c1", parent |-> NullID, version |-> 0,
                          key |-> KeyOfDraws(DrawsOf(1))]
                    @@ 2 :> [name |-> "c2", parent |-> 1, version |-> 0,
                             key |-> KeyOfDraws(DrawsOf(2))]),
   collectionItems |-> {<<1, 1>>},
   tags |-> (1 :> "t1" @@ 2 :> "t2"),
   itemTags |-> {[itemID |-> 2, tagID |-> 1, type |-> 0],
                 [itemID |-> 2, tagID |-> 2, type |-> 1],
                 [itemID |-> 3, tagID |-> 1, type |-> 0]},
   itemNotes |-> (4 :> [parentItemID |-> 2,
                        note |-> [div |-> TRUE, body |-> "n1"],
                        title |-> [merged |-> 0, text |-> "x"]]),
   itemAttachments |-> (5 :> [parentItemID |-> 1, path |-> "storage"]),
   itemData |-> <<>>,
   itemDataValues |-> {},
   itemFields |-> {},
   itemTypes |-> OldTypeIDs,
   integrity |-> "ok"]

\* The same library with three more attachments: 6 stored like 5, 7 linked
\* by an absolute path, 8 without a path.
AttachmentImage ==
  [BaseImage EXCEPT
     !.items = @ @@ (6 :> Item(AttachmentType, 6)
                     @@ 7 :> Item(AttachmentType, 7)
                     @@ 8 :> Item(AttachmentType, 8)),
     !.itemAttachments = @ @@ (6 :> [parentItemID |-> 1, path |-> "storage"]
                               @@ 7 :> [parentItemID |-> 2, path |-> "linked"]
                               @@ 8 :> [parentItemID |-> 2, path |-> "null"])]

\* The same library with attachment 6 filed in collection 2 and tagged t2.
LinkedAttachmentImage ==
  [AttachmentImage EXCEPT
     !.collectionItems = @ \cup {<<6, 2>>},
     !.itemTags = @ \cup {[itemID |-> 6, tagID |-> 2, type |-> 0]}]

\* A library of CrowdSize entries that all carry tag t1; every third of them
\* carries t2 as well.
CrowdSize == 23

CrowdedImage ==
  [ClosedImage EXCEPT
     !.items = [i \in 1..CrowdSize |-> Item(EntryType, i)],
     !.tags = (1 :> "t1" @@ 2 :> "t2"),
     !.itemTags = {[itemID |-> i, tagID |-> 1, type |-> 0] : i \in 1..CrowdSize}
                  \cup {[itemID |-> i, tagID |-> 2, type |-> 0] :
                          i \in {j \in 1..CrowdSize : j % 3 = 1}},
     !.itemTypes = OldTypeIDs]

\* Text values are sequences of pieces; a piece is a prefix, a separator or
\* a stretch of other characters, so that each pattern the code looks for
\* is one piece.  LowerPiece is LOWER() / the i flag on a piece.
LowerPiece(x) ==
  CASE x = "HTTPS://DOI.ORG/" -> "https://doi.org/"
    [] x = "DOI:" -> "doi:"
    [] x = "10.1/A" -> "10.1/a"
    [] OTHER -> x

Lower(text) == [k \in 1..Len(text) |-> LowerPiece(text[k])]

\* A library whose items carry titles, DOIs and ISBNs: entries 1 and 2 with
\* one title, DOIs that differ in case and ISBNs that differ in hyphens;
\* entry 3 with its DOI stored in the doi: form; the attachments 5 and 6
\* with one title, 7 and 8 with one DOI and one ISBN.
FieldRows ==
  {[itemID |-> 1, field |-> "title", value |-> <<"T1">>],
   [itemID |-> 2, field |-> "title", value |-> <<"T1">>],
   [itemID |-> 3, field |-> "title", value |-> <<"T2">>],
   [itemID |-> 5, field |-> "title", value |-> <<"pdf">>],
   [itemID |-> 6, field |-> "title", value |-> <<"pdf">>],
   [itemID |-> 1, field |-> "DOI", value |-> <<"10.1/a">>],
   [itemID |-> 2, field |-> "DOI", value |-> <<"10.1/A">>],
   [itemID |-> 3, field |-> "DOI", value |-> <<"doi:", "10.2/b">>],
   [itemID |-> 7, field |-> "DOI", value |-> <<"10.3/c">>],
   [itemID |-> 8, field |-> "DOI", value |-> <<"10.3/c">>],
   [itemID |-> 1, field |-> "ISBN", value |-> <<"978", "-", "0">>],
   [itemID |-> 2, field |-> "ISBN", value |-> <<"978", "0">>],
   [itemID |-> 3, field |-> "ISBN", value |-> <<"978", " ", "1">>],
   [itemID |-> 7, field |-> "ISBN", value |-> <<"978", "2">>],
   [itemID |-> 8, field |-> "ISBN", value |-> <<"978", "2">>]}

FieldImage(typeIDs) ==
  [AttachmentImage EXCEPT !.itemFields = FieldRows, !.itemTypes = typeIDs]

\* The same library with the tags of entry 2 already on entry 1.
TaggedImage ==
  [BaseImage EXCEPT !.itemTags = @ \cup
     {[itemID |-> 1, tagID |-> 1, type |-> 0],
      [itemID |-> 1, tagID |-> 2, type |-> 1]}]

\* ---------------------------------------------------------- SQL statements
\* Each statement maps an image to the outcome of db.run: the new image, the
\* rows modified, last_insert_rowid(), or the constraint that made it throw.
Done(d, n, id) == [db |-> d, changes |-> n, lastId |-> id, err |-> ""]

Throws(d, e) == [db |-> d, changes |-> 0, lastId |-> 0, err |-> e]

Strict == schema = "strict"

\* INSERT INTO collections (collectionName, parentCollectionID, libraryID,
\*                          key, version)
\* (the strict schema declares UNIQUE (libraryID, key); its foreign key is
\* checked once the row is in, so the row may name itself as its parent)
InsertCollection(d, name, parent, key) ==
  LET id == NextRowid(DOMAIN d.collections) IN
  IF Strict /\ \E c \in DOMAIN d.collections : d.collections[c].key = key
  THEN Throws(d, "Unique")
  ELSE IF Strict /\ parent # NullID
                 /\ parent \notin DOMAIN d.collections \cup {id}
  THEN Throws(d, "ForeignKey")
  ELSE Done([d EXCEPT !.collections =
               (id :> [name |-> name, parent |-> parent, version |-> 0,
                       key |-> key]) @@ @],
            1, id)

\* UPDATE collections SET collectionName = ?, version = version + 1
UpdateCollectionName(d, id, name) ==
  IF id \notin DOMAIN d.collections THEN Done(d, 0, 0)
  ELSE Done([d EXCEPT !.collections[id].name = name,
                      !.collections[id].version = @ + 1], 1, 0)

\* UPDATE collections SET parentCollectionID = ?, version = version + 1
UpdateCollectionParent(d, id, parent) ==
  IF id \notin DOMAIN d.collections THEN Done(d, 0, 0)
  ELSE IF Strict /\ parent # NullID /\ parent \notin DOMAIN d.collections
  THEN Throws(d, "ForeignKey")
  ELSE Done([d EXCEPT !.collections[id].parent = parent,
                      !.collections[id].version = @ + 1], 1, 0)

\* DELETE FROM collectionItems WHERE collectionID = ?
DeleteCollectionItems(d, cid) ==
  LET gone == {r \in d.collectionItems : r[2] = cid} IN
  Done([d EXCEPT !.collectionItems = @ \ gone], Cardinality(gone), 0)

\* The collections that ON DELETE CASCADE removes with cid: cid and every
\* collection whose parent chain reaches it.
RECURSIVE Subtree(_, _)
Subtree(d, S) ==
  LET T == S \cup {c \in DOMAIN d.collections : d.collections[c].parent \in S}
  IN IF T = S THEN S ELSE Subtree(d, T)

\* DELETE FROM collections WHERE collectionID = ?
DeleteCollectionRow(d, cid) ==
  IF cid \notin DOMAIN d.collections THEN Done(d, 0, 0)
  ELSE LET gone == IF Strict THEN Subtree(d, {cid}) ELSE {cid} IN
       Done([d EXCEPT
               !.collections = Restrict(@, DOMAIN @ \ gone),
               !.collectionItems =
                  IF Strict THEN {r \in @ : r[2] \notin gone} ELSE @],
            1, 0)

\* INSERT INTO tags (name) VALUES (?)
InsertTag(d, name) ==
  LET id == NextRowid(DOMAIN d.tags) IN
  Done([d EXCEPT !.tags = (id :> name) @@ @], 1, id)

\* INSERT INTO itemTags (itemID, tagID) VALUES (?, ?): the type column is
\* not given a value.
InsertItemTag(d, itemID, tagID) ==
  IF Strict THEN Throws(d, "NotNull")
  ELSE Done([d EXCEPT !.itemTags = @ \cup
               {[itemID |-> itemID, tagID |-> tagID, type |-> NullType]}],
            1, 0)

\* DELETE FROM itemTags WHERE itemID = ? AND tagID = ?
DeleteItemTag(d, itemID, tagID) ==
  LET gone == {r \in d.itemTags : r.itemID = itemID /\ r.tagID = tagID} IN
  Done([d EXCEPT !.itemTags = @ \ gone], Cardinality(gone), 0)

\* INSERT INTO collectionItems (itemID, collectionID) VALUES (?, ?)
InsertCollectionItem(d, itemID, cid) ==
  IF Strict /\ (itemID \notin DOMAIN d.items \/ cid \notin DOMAIN d.collections)
  THEN Throws(d, "ForeignKey")
  ELSE Done([d EXCEPT !.collectionItems = @ \cup {<<itemID, cid>>}], 1, 0)

\* DELETE FROM collectionItems WHERE itemID = ? AND collectionID = ?
DeleteCollectionItem(d, itemID, cid) ==
  LET gone == d.collectionItems \cap {<<itemID, cid>>} IN
  Done([d EXCEPT !.collectionItems = @ \ gone], Cardinality(gone), 0)

\* INSERT INTO itemDataValues (value) VALUES (?)
InsertValue(d, v) == Done([d EXCEPT !.itemDataValues = @ \cup {v}], 1, 0)

\* UPDATE itemData SET valueID = ? WHERE itemID = ? AND fieldID = ?
UpdateItemData(d, itemID, v) ==
  IF itemID \notin DOMAIN d.itemData THEN Done(d, 0, 0)
  ELSE Done([d EXCEPT !.itemData[itemID] = v], 1, 0)

\* INSERT INTO itemData (itemID, fieldID, valueID) VALUES (?, ?, ?)
InsertItemData(d, itemID, v) ==
  IF Strict /\ itemID \notin DOMAIN d.items THEN Throws(d, "ForeignKey")
  ELSE Done([d EXCEPT !.itemData = (itemID :> v) @@ @], 1, 0)

\* INSERT INTO items (itemTypeID, dateAdded, dateModified,
\*                    clientDateModified, key, libraryID, version, synced)
\* (the strict schema declares UNIQUE (libraryID, key))
InsertNoteItem(d, now, key) ==
  LET id == NextRowid(DOMAIN d.items) IN
  IF Strict /\ \E i \in DOMAIN d.items : d.items[i].key = key
  THEN Throws(d, "Unique")
  ELSE Done([d EXCEPT !.items =
          (id :> [itemType |-> NoteType, key |-> key, version |-> 0,
                  synced |-> FALSE,
                  dateModified |-> now, clientDateModified |-> now]) @@ @],
       1, id)

\* INSERT INTO itemNotes (itemID, parentItemID, note, title)
InsertItemNote(d, itemID, parent, note, title) ==
  Done([d EXCEPT !.itemNotes =
          (itemID :> [parentItemID |-> parent, note |-> note,
                      title |-> title]) @@ @], 1, 0)

\* DELETE FROM itemAttachments WHERE itemID = ?
DeleteAttachmentRow(d, itemID) ==
  IF itemID \notin DOMAIN d.itemAttachments THEN Done(d, 0, 0)
  ELSE Done([d EXCEPT !.itemAttachments = Restrict(@, DOMAIN @ \ {itemID})],
            1, 0)

\* (variant: the delete removes the items row and nothing else)
DeleteItemRow_NoCascade(d, itemID) ==
  IF itemID \notin DOMAIN d.items THEN Done(d, 0, 0)
  ELSE Done([d EXCEPT !.items = Restrict(@, DOMAIN @ \ {itemID})], 1, 0)

\* DELETE FROM items WHERE itemID = ?  (under the strict schema every table
\* that references items does so ON DELETE CASCADE)
DeleteItemRow(d, itemID) ==
  IF itemID \notin DOMAIN d.items THEN Done(d, 0, 0)
  ELSE LET d1 == [d EXCEPT !.items = Restrict(@, DOMAIN @ \ {itemID})] IN
       IF ~Strict THEN Done(d1, 1, 0)
       ELSE Done([d1 EXCEPT
              !.collectionItems = {r \in @ : r[1] # itemID},
              !.itemTags = {r \in @ : r.itemID # itemID},
              !.itemNotes = Restrict(@, {n \in DOMAIN @ :
                  n # itemID /\ @[n].parentItemID # itemID}),
              !.itemAttachments = Restrict(@, {a \in DOMAIN @ :
                  a # itemID /\ @[a].parentItemID # itemID}),
              !.itemData = Restrict(@, DOMAIN @ \ {itemID}),
              !.itemFields = {r \in @ : r.itemID # itemID}],
            1, 0)

\* ------------------------------------------------------ the running call
\* A call in progress: the object's fields and the file as the call has
\* left them so far, the exception being thrown (err, "" when none), the
\* result of the last execute, and the value about to be returned.  The
\* surroundings of the call: random, the draws Math.random is going to give
\* (<<>>: draws that make keys not in use); flipAt, the point of the call
\* before which Zotero starts or quits (0: never during the call), the
\* points being the process checks and the overwrites of the file; probes,
\* the points passed so far.  liveWrites counts the overwrites of the file
\* made while Zotero was running.
Start ==
  [db |-> db, file |-> file, backups |-> backups, backupPath |-> backupPath,
   dirty |-> hasUnsavedChanges, changed |-> changed,
   wrote |-> 0, backedUp |-> 0, liveWrites |-> 0,
   err |-> "", changes |-> 0, lastId |-> 0,
   ret |-> 0, notes |-> 0, tags |-> 0, errors |-> <<>>,
   random |-> <<>>, flipAt |-> 0, probes |-> 0]

Return(c, v) == IF c.err # "" THEN c ELSE [c EXCEPT !.ret = v]

Throw(c, e) == IF c.err # "" THEN c ELSE [c EXCEPT !.err = e]

getCurrentTimestamp == clock

\* pgrep / tasklist finds the Zotero process
isZoteroRunning == running

\* The state of the process at the next point of a call in progress: the
\* answer of its next process check.
ZoteroRunningNow(c) ==
  IF c.flipAt # 0 /\ c.probes + 1 >= c.flipAt
  THEN ~isZoteroRunning ELSE isZoteroRunning

Probed(c) == [c EXCEPT !.probes = @ + 1]

\* The state of the process when the call returns.
ZoteroRunningAfter(c) ==
  IF c.flipAt # 0 /\ c.probes >= c.flipAt
  THEN ~isZoteroRunning ELSE isZoteroRunning

\* Draws that make a key no item and no collection carries.
FreshDraws(d) ==
  DrawsOf(1 + Max({0}
     \cup {LastIndex(d.items[i].key) : i \in DOMAIN d.items}
     \cup {LastIndex(d.collections[x].key) : x \in DOMAIN d.collections}))

\* generateKey(): eight characters of the alphabet at random indices, with
\* no look at the keys in use.
generateKey(c) ==
  KeyOfDraws(IF c.random = <<>> THEN FreshDraws(c.db) ELSE Head(c.random))

KeyDrawn(c) == [c EXCEPT !.random = IF @ = <<>> THEN @ ELSE Tail(@)]

\* existsSync(dbPath + '-wal') || existsSync(dbPath + '-shm')
hasWALFiles == wal

\* The errors with which the guard refuses a call.
LiveWriterErrors == {"ZoteroRunning", "WALFiles"}

\* createBackup: copyFileSync(dbPath, backupPath).  dbPath names a file
\* *.sqlite, so the backup path is a new name next to it.
createBackup(c) ==
  [c EXCEPT !.backups = Append(@, c.file), !.backupPath = Len(c.backups) + 1,
            !.backedUp = @ + 1]

\* writeFileSync(dbPath, db.export()); hasUnsavedChanges = false.  Nothing
\* looks at the Zotero process here: it may have started since the check.
writeFile(c) ==
  [Probed(c) EXCEPT !.file = c.db, !.wrote = @ + 1,
                    !.liveWrites = @ + (IF ZoteroRunningNow(c) THEN 1 ELSE 0),
                    !.dirty = FALSE, !.changed = FALSE]

\* (variant: the file is overwritten without a backup being taken)
save_NoBackup(c) ==
  IF c.err # "" THEN c
  ELSE IF ~connected \/ readonly \/ ~c.dirty THEN c
  ELSE IF ZoteroRunningNow(c) THEN Throw(Probed(c), "ZoteroRunning")
  ELSE IF hasWALFiles THEN Throw(Probed(c), "WALFiles")
  ELSE writeFile(Probed(c))

\* (variant: the early return does not look at the read-only flag)
save_IgnoresReadonly(c) ==
  IF c.err # "" THEN c
  ELSE IF ~connected \/ ~c.dirty THEN c
  ELSE IF ZoteroRunningNow(c) THEN Throw(Probed(c), "ZoteroRunning")
  ELSE IF hasWALFiles THEN Throw(Probed(c), "WALFiles")
  ELSE writeFile(IF c.backupPath = 0 THEN createBackup(Probed(c))
                 ELSE Probed(c))

\* (variant: save does not ask whether Zotero is running)
save_Unguarded(c) ==
  IF c.err # "" THEN c
  ELSE IF ~connected \/ readonly \/ ~c.dirty THEN c
  ELSE IF hasWALFiles THEN Throw(Probed(c), "WALFiles")
  ELSE writeFile(IF c.backupPath = 0 THEN createBackup(Probed(c))
                 ELSE Probed(c))

\* save(): returns early when closed, read-only or clean; refuses while
\* Zotero runs or sentinel files exist; copies the file once per object;
\* then overwrites the file with the exported image.
save(c) ==
  IF c.err # "" THEN c
  ELSE IF ~connected \/ readonly \/ ~c.dirty THEN c
  ELSE IF ZoteroRunningNow(c) THEN Throw(Probed(c), "ZoteroRunning")
  ELSE IF hasWALFiles THEN Throw(Probed(c), "WALFiles")
  ELSE writeFile(IF c.backupPath = 0 THEN createBackup(Probed(c))
                 ELSE Probed(c))

\* (variant: a query is refused while Zotero runs, as a statement is)
queryAll_Guarded(c, rows) ==
  IF c.err # "" THEN c
  ELSE IF ZoteroRunningNow(c) THEN Throw(Probed(c), "ZoteroRunning")
  ELSE Return(Probed(c), rows)

\* queryAll(sql): prepares the statement, steps through it and returns the
\* rows; no look at the Zotero process or the sentinel files, no markDirty.
queryAll(c, rows) ==
  IF c.err # "" THEN c
  ELSE Return(c, rows)

\* (variant: the statement runs without the object being marked dirty)
execute_NoMarkDirty(c, r) ==
  IF c.err # "" THEN c
  ELSE IF ZoteroRunningNow(c) THEN Throw(Probed(c), "ZoteroRunning")
  ELSE IF r.err # "" THEN Throw(Probed(c), r.err)
  ELSE [Probed(c) EXCEPT !.db = r.db,
                         !.changed = @ \/ (r.db # c.db),
                         !.changes = r.changes, !.lastId = r.lastId]

\* execute(sql): refuses while Zotero runs, runs the statement, marks the
\* object dirty, reads back the rows modified and the last rowid.
execute(c, r) ==
  IF c.err # "" THEN c
  ELSE IF ZoteroRunningNow(c) THEN Throw(Probed(c), "ZoteroRunning")
  ELSE IF r.err # "" THEN Throw(Probed(c), r.err)
  ELSE [Probed(c) EXCEPT !.db = r.db, !.dirty = TRUE,
                         !.changed = @ \/ (r.db # c.db),
                         !.changes = r.changes, !.lastId = r.lastId]

\* (variant: the update leaves clientDateModified and synced alone)
ItemMetadataUpdated_DateOnly(d, itemID, timestamp) ==
  IF itemID \notin DOMAIN d.items THEN d
  ELSE [d EXCEPT !.items[itemID] =
          [@ EXCEPT !.dateModified = timestamp, !.version = @ + 1]]

\* UPDATE items SET dateModified = ?, clientDateModified = ?,
\*                  version = version + 1, synced = 0 WHERE itemID = ?
ItemMetadataUpdated(d, itemID, timestamp) ==
  IF itemID \notin DOMAIN d.items THEN d
  ELSE [d EXCEPT !.items[itemID] =
          [@ EXCEPT !.dateModified = timestamp,
                    !.clientDateModified = timestamp,
                    !.version = @ + 1,
                    !.synced = FALSE]]

\* updateItemMetadata: goes to db.run directly, past execute.
updateItemMetadata(c, itemID) ==
  IF c.err # "" THEN c
  ELSE LET d == ItemMetadataUpdated(c.db, itemID, getCurrentTimestamp) IN
       [c EXCEPT !.db = d, !.changed = @ \/ (d # c.db)]

SaveUnlessReadonly(c) == IF ~readonly THEN save(c) ELSE c

SaveIfChanged(c) == IF ~readonly /\ c.changes > 0 THEN save(c) ELSE c

\* ------------------------------------------------------------- accessors
createCollection(c, name, parent) ==
  LET key == generateKey(c)
      c1 == execute(KeyDrawn(c), InsertCollection(c.db, name, parent, key))
  IN Return(SaveUnlessReadonly(c1), c1.lastId)

renameCollection(c, cid, newName) ==
  LET c1 == execute(c, UpdateCollectionName(c.db, cid, newName))
  IN Return(SaveIfChanged(c1), c1.changes > 0)

moveCollection(c, cid, newParent) ==
  LET c1 == execute(c, UpdateCollectionParent(c.db, cid, newParent))
  IN Return(SaveIfChanged(c1), c1.changes > 0)

deleteCollection(c, cid) ==
  LET c1 == execute(c, DeleteCollectionItems(c.db, cid))
      c2 == execute(c1, DeleteCollectionRow(c1.db, cid))
  IN Return(SaveIfChanged(c2), c2.changes > 0)

\* ORDER BY collectionName
CollOrder == <<"c1", "c2", "c3", "c4">>

CollRank(name) == CHOOSE i \in 1..Len(CollOrder) : CollOrder[i] = name

RECURSIVE ByCollectionName(_, _)
ByCollectionName(d, ids) ==
  IF ids = {} THEN <<>>
  ELSE LET first == CHOOSE x \in ids : \A y \in ids :
                      \/ CollRank(d.collections[x].name)
                           < CollRank(d.collections[y].name)
                      \/ /\ d.collections[x].name = d.collections[y].name
                         /\ x <= y
       IN <<[collectionID |-> first,
             collectionName |-> d.collections[first].name,
             parentCollectionID |-> d.collections[first].parent]>>
          \o ByCollectionName(d, ids \ {first})

\* (variant: the subcollections at any depth)
getSubcollections_Deep(d, parentCollectionID) ==
  ByCollectionName(d, Subtree(d, {parentCollectionID})
                        \cap {c \in DOMAIN d.collections :
                                d.collections[c].parent # NullID})

\* getSubcollections: WHERE parentCollectionID = ? ORDER BY collectionName
getSubcollections(d, parentCollectionID) ==
  ByCollectionName(d, {c \in DOMAIN d.collections :
                         /\ parentCollectionID # NullID
                         /\ d.collections[c].parent = parentCollectionID})

getTagByName(d, name) ==
  IF \E t \in DOMAIN d.tags : d.tags[t] = name
  THEN CHOOSE t \in DOMAIN d.tags : d.tags[t] = name
  ELSE NullID

createTag(c, name, type) ==
  LET existing == getTagByName(c.db, name) IN
  IF existing # NullID THEN Return(c, existing)
  ELSE LET c1 == execute(c, InsertTag(c.db, name))
       IN Return(SaveUnlessReadonly(c1), c1.lastId)

\* (variant: the item is marked as modified even when it already carries
\* the tag)
addTagToItem_AlwaysBumps(c, itemID, tagName, type) ==
  LET c1 == createTag(c, tagName, type)
      tagID == c1.ret
      existing == \E r \in c1.db.itemTags : r.itemID = itemID /\ r.tagID = tagID
  IN IF c1.err # "" THEN c1
     ELSE IF existing THEN Return(updateItemMetadata(c1, itemID), FALSE)
     ELSE LET c2 == execute(c1, InsertItemTag(c1.db, itemID, tagID))
              c3 == updateItemMetadata(c2, itemID)
          IN Return(SaveUnlessReadonly(c3), TRUE)

addTagToItem(c, itemID, tagName, type) ==
  LET c1 == createTag(c, tagName, type)
      tagID == c1.ret
      existing == \E r \in c1.db.itemTags : r.itemID = itemID /\ r.tagID = tagID
  IN IF c1.err # "" THEN c1
     ELSE IF existing THEN Return(c1, FALSE)
     ELSE LET c2 == execute(c1, InsertItemTag(c1.db, itemID, tagID))
              c3 == updateItemMetadata(c2, itemID)
          IN Return(SaveUnlessReadonly(c3), TRUE)

removeTagFromItem(c, itemID, tagName) ==
  LET tagID == getTagByName(c.db, tagName) IN
  IF tagID = NullID THEN Return(c, FALSE)
  ELSE LET c1 == execute(c, DeleteItemTag(c.db, itemID, tagID))
           c2 == IF c1.changes > 0 THEN updateItemMetadata(c1, itemID) ELSE c1
       IN Return(SaveIfChanged(c2), c1.changes > 0)

addItemToCollection(c, itemID, cid) ==
  IF <<itemID, cid>> \in c.db.collectionItems THEN Return(c, FALSE)
  ELSE LET c1 == execute(c, InsertCollectionItem(c.db, itemID, cid))
           c2 == updateItemMetadata(c1, itemID)
       IN Return(SaveUnlessReadonly(c2), TRUE)

removeItemFromCollection(c, itemID, cid) ==
  LET c1 == execute(c, DeleteCollectionItem(c.db, itemID, cid))
      c2 == IF c1.changes > 0 THEN updateItemMetadata(c1, itemID) ELSE c1
  IN Return(SaveIfChanged(c2), c1.changes > 0)

setItemAbstract(c, itemID, abstract) ==
  LET c1 == IF abstract \in c.db.itemDataValues THEN c
            ELSE execute(c, InsertValue(c.db, abstract))
      c2 == IF itemID \in DOMAIN c1.db.itemData
            THEN execute(c1, UpdateItemData(c1.db, itemID, abstract))
            ELSE execute(c1, InsertItemData(c1.db, itemID, abstract))
      c3 == updateItemMetadata(c2, itemID)
  IN Return(SaveUnlessReadonly(c3), TRUE)

\* '<div class="zotero-note znv1">' + noteContent + '</div>' unless the
\* content already starts with the wrapper.
FormattedNote(noteContent) ==
  IF noteContent.div THEN noteContent
  ELSE [div |-> TRUE, body |-> noteContent.body]

\* (variant: the note is inserted without a look at the parent)
addItemNote_NoParentCheck(c, parentItemID, noteContent, title) ==
  LET key == generateKey(c)
      c1 == execute(KeyDrawn(c), InsertNoteItem(c.db, getCurrentTimestamp, key))
      itemID == c1.lastId
      c2 == execute(c1, InsertItemNote(c1.db, itemID, parentItemID,
                                       FormattedNote(noteContent), title))
      c3 == updateItemMetadata(c2, parentItemID)
  IN Return(SaveUnlessReadonly(c3), itemID)

\* addItemNote: throws 'Parent item not found' before anything else when no
\* items row has the id; otherwise inserts the note item, its itemNotes row,
\* updates the parent's metadata and saves.
addItemNote(c, parentItemID, noteContent, title) ==
  IF parentItemID \notin DOMAIN c.db.items THEN Throw(c, "ParentNotFound")
  ELSE LET key == generateKey(c)
           c1 == execute(KeyDrawn(c),
                         InsertNoteItem(c.db, getCurrentTimestamp, key))
           itemID == c1.lastId
           c2 == execute(c1, InsertItemNote(c1.db, itemID, parentItemID,
                                            FormattedNote(noteContent), title))
           c3 == updateItemMetadata(c2, parentItemID)
       IN Return(SaveUnlessReadonly(c3), itemID)

\* ------------------------------------------------------- lookup accessors
\* The rows of one item in the join of findSimilarByTags: its itemTags rows
\* with a tags row and a tag that the given item carries as well.
SharedRows(d, itemID, other) ==
  {r \in d.itemTags :
     /\ r.itemID = other
     /\ r.tagID \in DOMAIN d.tags
     /\ \E x \in d.itemTags : x.itemID = itemID /\ x.tagID = r.tagID}

\* ORDER BY sharedTagCount DESC; rows with equal counts come in the order
\* the engine happens to produce, here by ascending or by descending id.
RECURSIVE ByCountDesc(_, _, _)
ByCountDesc(count, ids, ties) ==
  IF ids = {} THEN <<>>
  ELSE LET best == {i \in ids : \A j \in ids : count[j] <= count[i]}
           first == IF ties = "asc"
                    THEN CHOOSE i \in best : \A j \in best : i <= j
                    ELSE CHOOSE i \in best : \A j \in best : j <= i
       IN <<first>> \o ByCountDesc(count, ids \ {first}, ties)

\* LIMIT n
Limit(rows, n) == SubSeq(rows, 1, IF Len(rows) < n THEN Len(rows) ELSE n)

\* GROUP BY i.itemID HAVING COUNT(it2.tagID) >= ? over the candidate items
Ranked(d, itemID, minSharedTags, ties, candidates) ==
  LET count == [i \in candidates |-> Cardinality(SharedRows(d, itemID, i))]
      groups == {i \in candidates : count[i] > 0 /\ count[i] >= minSharedTags}
      order == Limit(ByCountDesc(count, groups, ties), SimilarLimit)
  IN [k \in 1..Len(order) |->
        [itemID |-> order[k], sharedTagCount |-> count[order[k]]]]

\* (variant: the condition i.itemID != ? is missing)
findSimilarByTags_WithSelf(d, itemID, minSharedTags, ties) ==
  Ranked(d, itemID, minSharedTags, ties, DOMAIN d.items)

findSimilarByTags(d, itemID, minSharedTags, ties) ==
  Ranked(d, itemID, minSharedTags, ties, DOMAIN d.items \ {itemID})

\* doi.replace(/^https?:\/\/doi\.org\//i, '')
StripResolver(text) ==
  IF text # <<>> /\ LowerPiece(Head(text)) \in {"https://doi.org/",
                                                "http://doi.org/"}
  THEN Tail(text) ELSE text

\* (variant: the pattern /^doi:/ without the i flag)
StripScheme_CaseSensitive(text) ==
  IF text # <<>> /\ Head(text) = "doi:" THEN Tail(text) ELSE text

\* .replace(/^doi:/i, '')
StripScheme(text) ==
  IF text # <<>> /\ LowerPiece(Head(text)) = "doi:" THEN Tail(text) ELSE text

\* .trim()
RECURSIVE Trim(_)
Trim(text) ==
  IF text = <<>> THEN text
  ELSE IF Head(text) = " " THEN Trim(Tail(text))
  ELSE IF text[Len(text)] = " " THEN Trim(SubSeq(text, 1, Len(text) - 1))
  ELSE text

\* findItemByDOI: the first item whose DOI value equals the cleaned argument
\* up to letter case; NullID for null.
findItemByDOI(d, doi) ==
  LET normalizedDOI == Trim(StripScheme(StripResolver(doi)))
      found == {r.itemID : r \in {x \in d.itemFields :
                  /\ x.field = "DOI"
                  /\ x.itemID \in DOMAIN d.items
                  /\ Lower(x.value) = Lower(normalizedDOI)}}
  IN IF found = {} THEN NullID
     ELSE CHOOSE i \in found : \A j \in found : i <= j

\* REPLACE(REPLACE(iv.value, '-', ''), ' ', '')
RECURSIVE StripSeparators(_)
StripSeparators(text) ==
  IF text = <<>> THEN text
  ELSE IF Head(text) \in {"-", " "} THEN StripSeparators(Tail(text))
  ELSE <<Head(text)>> \o StripSeparators(Tail(text))

\* The GROUP BY expression of each branch of findDuplicates.
GroupKey(field, value) ==
  CASE field = "title" -> value
    [] field = "doi" -> Lower(value)
    [] OTHER -> StripSeparators(value)

FieldName(field) ==
  CASE field = "title" -> "title"
    [] field = "doi" -> "DOI"
    [] OTHER -> "ISBN"

\* The rows each branch groups: the title branch leaves out the items whose
\* itemTypeID is 1 or 14, the other two the empty values.
DuplicateRows(d, field) ==
  {r \in d.itemFields :
     /\ r.field = FieldName(field)
     /\ r.itemID \in DOMAIN d.items
     /\ IF field = "title"
        THEN d.itemTypes[d.items[r.itemID].itemType] \notin ExcludedTypeIDs
        ELSE r.value # <<>>}

\* findDuplicates(field): GROUP BY the key HAVING COUNT(*) > 1 ORDER BY count
\* DESC, each group with its ids and its count.
findDuplicates(d, field, ties) ==
  LET rows == DuplicateRows(d, field)
      members(r) == {x.itemID : x \in {y \in rows :
                       GroupKey(field, y.value) = GroupKey(field, r.value)}}
      first(r) == CHOOSE i \in members(r) : \A j \in members(r) : i <= j
      heads == {first(r) : r \in {x \in rows : Cardinality(members(x)) > 1}}
      group == [h \in heads |->
                  members(CHOOSE r \in rows : r.itemID = h /\ first(r) = h)]
      count == [h \in heads |-> Cardinality(group[h])]
      order == ByCountDesc(count, heads, ties)
  IN [k \in 1..Len(order) |->
        [itemIDs |-> Ascending(group[order[k]]), count |-> count[order[k]]]]

\* --------------------------------------------------- maintenance accessors
\* getAttachmentPath + existsSync: a storage: path resolves through the
\* item's key to a file that is there or not.
AttachmentFileExists(itemID) == itemID \in storage

\* findOrphanAttachments: attachments with a storage: path (joined to their
\* own item row) whose file is missing, in row order.
findOrphanAttachments(d) ==
  Ascending({a \in DOMAIN d.itemAttachments :
               /\ a \in DOMAIN d.items
               /\ d.itemAttachments[a].path = "storage"
               /\ ~AttachmentFileExists(a)})

\* getAttachmentPath: null without a path, else the path, the storage: form
\* resolved through the item's key.
getAttachmentPath(d, itemID) ==
  IF itemID \notin DOMAIN d.itemAttachments THEN "null"
  ELSE d.itemAttachments[itemID].path

\* validateAttachments(itemID, checkAll): the attachments under the item, or
\* all of them, that have a path, each with its file present or missing.
validateAttachments(d, itemID, checkAll) ==
  LET rows == {a \in DOMAIN d.itemAttachments :
                 /\ a \in DOMAIN d.items
                 /\ d.itemAttachments[a].path # "null"
                 /\ itemID # NullID => d.itemAttachments[a].parentItemID = itemID}
      attachments == IF itemID # NullID \/ checkAll THEN rows ELSE {}
      exists(a) == getAttachmentPath(d, a) # "null" /\ AttachmentFileExists(a)
  IN [valid |-> Ascending({a \in attachments : exists(a)}),
      missing |-> Ascending({a \in attachments : ~exists(a)}),
      total |-> Cardinality(attachments)]

\* (variant: an orphan counts as deleted once its turn has been taken)
DeleteOrphan_CountsAttempts(c, itemID) ==
  LET c1 == execute(c, DeleteAttachmentRow(c.db, itemID))
      c2 == execute(c1, DeleteItemRow(c1.db, itemID))
  IN [c2 EXCEPT !.err = "", !.ret = @ + 1]

\* One turn of the loop of deleteOrphanAttachments: both deletes inside one
\* try, the count after them, the catch only logging.
DeleteOrphan(c, itemID) ==
  LET c1 == execute(c, DeleteAttachmentRow(c.db, itemID))
      c2 == execute(c1, DeleteItemRow(c1.db, itemID))
  IN IF c2.err # "" THEN [c2 EXCEPT !.err = ""]
     ELSE [c2 EXCEPT !.ret = @ + 1]

RECURSIVE DeleteOrphans(_, _)
DeleteOrphans(c, orphans) ==
  IF orphans = <<>> THEN c
  ELSE DeleteOrphans(DeleteOrphan(c, Head(orphans)), Tail(orphans))

\* (variant: only the dryRun argument keeps the deletes from running)
deleteOrphanAttachments_IgnoresReadonly(c, dryRun) ==
  LET orphans == findOrphanAttachments(c.db) IN
  IF dryRun
  THEN Return(c, [orphans |-> orphans, deleted |-> 0, dryRun |-> TRUE])
  ELSE LET c1 == DeleteOrphans([c EXCEPT !.ret = 0], orphans)
       IN Return(c1, [orphans |-> orphans, deleted |-> c1.ret,
                      dryRun |-> FALSE])

deleteOrphanAttachments(c, dryRun) ==
  LET orphans == findOrphanAttachments(c.db) IN
  IF dryRun \/ readonly
  THEN Return(c, [orphans |-> orphans, deleted |-> 0, dryRun |-> TRUE])
  ELSE LET c1 == DeleteOrphans([c EXCEPT !.ret = 0], orphans)
       IN Return(c1, [orphans |-> orphans, deleted |-> c1.ret,
                      dryRun |-> FALSE])

\* getItemNotes: the itemNotes rows under a parent, in row order.
getItemNotes(d, itemID) ==
  LET ids == Ascending({n \in DOMAIN d.itemNotes :
                          d.itemNotes[n].parentItemID = itemID})
  IN [i \in 1..Len(ids) |-> d.itemNotes[ids[i]]]

\* ORDER BY t.name
TagOrder == <<"t1", "t2", "t3">>

NameRank(name) == CHOOSE i \in 1..Len(TagOrder) : TagOrder[i] = name

RECURSIVE ByName(_, _)
ByName(d, rows) ==
  IF rows = {} THEN <<>>
  ELSE LET r == CHOOSE x \in rows : \A y \in rows :
                  NameRank(d.tags[x.tagID]) <= NameRank(d.tags[y.tagID])
       IN <<[name |-> d.tags[r.tagID], type |-> r.type]>>
          \o ByName(d, rows \ {r})

\* getItemTags: the tags joined to the item's itemTags rows, by name.
getItemTags(d, itemID) ==
  ByName(d, {r \in d.itemTags : r.itemID = itemID /\ r.tagID \in DOMAIN d.tags})

\* getItemDetails returns {} for an unknown id, the item otherwise.
getItemDetails(d, itemID) ==
  IF itemID \in DOMAIN d.items THEN [itemID |-> itemID] ELSE [x \in {} |-> 0]

\* !x for the value getItemDetails returns: an object, {} included, is truthy.
Not(obj) == FALSE

MergedTitle(title) == [title EXCEPT !.merged = @ + 1]

\* for (const note of notes) { addItemNote(...); notesTransferred++ }
RECURSIVE TransferNotes(_, _, _)
TransferNotes(c, target, notes) ==
  IF notes = <<>> \/ c.err # "" THEN c
  ELSE LET c1 == addItemNote(c, target, Head(notes).note,
                             MergedTitle(Head(notes).title))
       IN IF c1.err # "" THEN c1
          ELSE TransferNotes([c1 EXCEPT !.notes = @ + 1], target, Tail(notes))

\* (variant: a tag counts only when addTagToItem reports a new attachment)
RECURSIVE TransferTags_CountsNew(_, _, _)
TransferTags_CountsNew(c, target, tags) ==
  IF tags = <<>> \/ c.err # "" THEN c
  ELSE LET c1 == addTagToItem(c, target, Head(tags).name, Head(tags).type)
       IN IF c1.err # "" THEN c1
          ELSE TransferTags_CountsNew(
                 [c1 EXCEPT !.tags = IF c1.ret = TRUE THEN @ + 1 ELSE @],
                 target, Tail(tags))

\* for (const tag of tags) { addTagToItem(...); tagsTransferred++ }
RECURSIVE TransferTags(_, _, _)
TransferTags(c, target, tags) ==
  IF tags = <<>> \/ c.err # "" THEN c
  ELSE LET c1 == addTagToItem(c, target, Head(tags).name, Head(tags).type)
       IN IF c1.err # "" THEN c1
          ELSE TransferTags([c1 EXCEPT !.tags = @ + 1], target, Tail(tags))

\* catch (error) { errors.push(`Failed to transfer <what> from <source>`) }
Catch(c, what, sourceID) ==
  IF c.err = "" THEN c
  ELSE [c EXCEPT !.errors = Append(@, [what |-> what, source |-> sourceID,
                                       error |-> c.err]),
                 !.err = ""]

\* (variant: one try around both transfers of a source)
MergeSource_OneTry(c, target, sourceID) ==
  LET c1 == TransferNotes(c, target, getItemNotes(c.db, sourceID))
  IN Catch(TransferTags(c1, target, getItemTags(c1.db, sourceID)),
           IF c1.err # "" THEN "notes" ELSE "tags", sourceID)

\* (variant: the source is marked as modified once its data is transferred)
MergeSource_TouchesSource(c, target, sourceID) ==
  LET c1 == Catch(TransferNotes(c, target, getItemNotes(c.db, sourceID)),
                  "notes", sourceID)
      c2 == Catch(TransferTags(c1, target, getItemTags(c1.db, sourceID)),
                  "tags", sourceID)
  IN updateItemMetadata(c2, sourceID)

\* One turn of the loop of mergeItems: the notes of the source in one try,
\* its tags in the next.
MergeSource(c, target, sourceID) ==
  LET c1 == Catch(TransferNotes(c, target, getItemNotes(c.db, sourceID)),
                  "notes", sourceID)
  IN Catch(TransferTags(c1, target, getItemTags(c1.db, sourceID)),
           "tags", sourceID)

RECURSIVE MergeSources(_, _, _)
MergeSources(c, target, sources) ==
  IF sources = <<>> THEN c
  ELSE IF Head(sources) = target THEN MergeSources(c, target, Tail(sources))
  ELSE MergeSources(MergeSource(c, target, Head(sources)), target,
                    Tail(sources))

mergeItems(c, targetItemID, sourceItemIDs) ==
  IF Not(getItemDetails(c.db, targetItemID))
  THEN Return(c, [success |-> FALSE, notes |-> 0, tags |-> 0,
                  errors |-> <<[what |-> "target", source |-> targetItemID,
                                error |-> "TargetNotFound"]>>])
  ELSE LET c1 == MergeSources(c, targetItemID, sourceItemIDs)
       IN Return(c1, [success |-> c1.errors = <<>>, notes |-> c1.notes,
                      tags |-> c1.tags, errors |-> c1.errors])

\* ---------------------------------------------------------------- inputs
ItemArgs == {1, 2, BogusID}
CollArgs == {1, 2, BogusID}
ParentArgs == {NullID} \cup CollArgs
NoteArgs == {[div |-> b, body |-> n] : b \in BOOLEAN, n \in NoteBodies}
NoTitle == [merged |-> 0, text |-> ""]
MergeTargets == {1, BogusID}
SourceLists == {<<2>>, <<3>>, <<2, 3>>, <<3, 2>>, <<2, 2>>, <<1, 2>>}

\* ------------------------------------------------------------------- Init
\* Nothing written and no backup taken since the database was opened.
NewSession == [writes |-> 0, backups |-> 0]

Init ==
  /\ file \in {BaseImage, TaggedImage}
  /\ db = ClosedImage
  /\ connected = FALSE
  /\ readonly = FALSE
  /\ backupPath = 0
  /\ hasUnsavedChanges = FALSE
  /\ backups = <<>>
  /\ storage = {}
  /\ running \in BOOLEAN
  /\ wal \in BOOLEAN
  /\ schema \in {"strict", "lenient"}
  /\ clock = 1
  /\ changed = FALSE
  /\ session = NewSession
  /\ last = [op |-> "new", args |-> <<>>, ret |-> 0, err |-> "",
             wrote |-> 0, backedUp |-> 0, live |-> 0]

\* ---------------------------------------------------------------- actions
\* PRAGMA integrity_check answers 'ok'
verifyIntegrity(d) == d.integrity = "ok"

\* connect(): returns at once when open; otherwise loads the file into
\* memory and runs the integrity probe, whose failure is logged.
Connect ==
  /\ db' = IF connected THEN db ELSE file
  /\ connected' = TRUE
  /\ changed' = IF connected THEN changed ELSE FALSE
  /\ session' = IF connected THEN session ELSE NewSession
  /\ last' = [op |-> "connect", args |-> <<>>, ret |-> 0, err |-> "",
              wrote |-> 0, backedUp |-> 0, live |-> 0]
  /\ UNCHANGED <<readonly, backupPath, hasUnsavedChanges, file, backups,
                 storage, running, wal, schema, clock>>

\* The state a finished call leaves behind.
Finish(op, args, c) ==
  /\ db' = c.db
  /\ file' = c.file
  /\ backups' = c.backups
  /\ backupPath' = c.backupPath
  /\ hasUnsavedChanges' = c.dirty
  /\ changed' = c.changed
  /\ session' = [writes |-> session.writes + c.wrote,
                 backups |-> session.backups + c.backedUp]
  /\ last' = [op |-> op, args |-> args, ret |-> c.ret, err |-> c.err,
              wrote |-> c.wrote, backedUp |-> c.backedUp,
              live |-> c.liveWrites]

\* disconnect(): nothing when already closed; otherwise saves when dirty,
\* logging a refused save (kept here as the value returned), then closes.
Disconnect ==
  /\ LET c1 == IF connected /\ ~readonly /\ hasUnsavedChanges
               THEN save(Start) ELSE Start
         c2 == [c1 EXCEPT !.ret = c1.err, !.err = "", !.db = ClosedImage]
     IN Finish("disconnect", <<>>, c2)
  /\ connected' = FALSE
  /\ UNCHANGED <<readonly, storage, running, wal, schema, clock>>

\* save() called by the owner of the object.
Save ==
  /\ Finish("save", <<>>, save(Start))
  /\ UNCHANGED <<connected, readonly, storage, running, wal, schema, clock>>

\* An accessor call: the first queryAll / execute throws, whatever the
\* arguments, when the database is closed.
Call(op, args, c) ==
  /\ clock <= MaxOps
  /\ IF connected
     THEN Finish(op, args, c) /\ clock' = clock + 1
     ELSE Finish(op, <<>>, Throw(Start, "NotConnected")) /\ clock' = clock
  /\ UNCHANGED <<connected, readonly, storage, running, wal, schema>>

CreateCollection ==
  \E name \in CollNames, parent \in ParentArgs :
    Call("createCollection", <<name, parent>>,
         createCollection(Start, name, parent))

RenameCollection ==
  \E cid \in CollArgs, name \in CollNames :
    Call("renameCollection", <<cid, name>>, renameCollection(Start, cid, name))

MoveCollection ==
  \E cid \in CollArgs, parent \in ParentArgs :
    Call("moveCollection", <<cid, parent>>, moveCollection(Start, cid, parent))

DeleteCollection ==
  \E cid \in CollArgs :
    Call("deleteCollection", <<cid>>, deleteCollection(Start, cid))

CreateTag ==
  \E name \in TagNames, type \in TagTypes :
    Call("createTag", <<name, type>>, createTag(Start, name, type))

AddTagToItem ==
  \E itemID \in ItemArgs, name \in TagNames, type \in TagTypes :
    Call("addTagToItem", <<itemID, name, type>>,
         addTagToItem(Start, itemID, name, type))

RemoveTagFromItem ==
  \E itemID \in ItemArgs, name \in TagNames :
    Call("removeTagFromItem", <<itemID, name>>,
         removeTagFromItem(Start, itemID, name))

AddItemToCollection ==
  \E itemID \in ItemArgs, cid \in CollArgs :
    Call("addItemToCollection", <<itemID, cid>>,
         addItemToCollection(Start, itemID, cid))

RemoveItemFromCollection ==
  \E itemID \in ItemArgs, cid \in CollArgs :
    Call("removeItemFromCollection", <<itemID, cid>>,
         removeItemFromCollection(Start, itemID, cid))

SetItemAbstract ==
  \E itemID \in ItemArgs, abstract \in AbstractVals :
    Call("setItemAbstract", <<itemID, abstract>>,
         setItemAbstract(Start, itemID, abstract))

AddItemNote ==
  \E itemID \in ItemArgs, note \in NoteArgs :
    Call("addItemNote", <<itemID, note>>,
         addItemNote(Start, itemID, note, NoTitle))

DeleteOrphanAttachments ==
  \E dryRun \in BOOLEAN :
    Call("deleteOrphanAttachments", <<dryRun>>,
         deleteOrphanAttachments(Start, dryRun))

MergeItems ==
  \E target \in MergeTargets, sources \in SourceLists :
    Call("mergeItems", <<target, sources>>,
         mergeItems(Start, target, sources))

\* An accessor call during which Zotero may start or quit.
CallAmid(op, args, c) ==
  /\ clock <= MaxOps
  /\ IF connected
     THEN Finish(op, args, c) /\ clock' = clock + 1
     ELSE Finish(op, <<>>, Throw(Start, "NotConnected")) /\ clock' = clock
  /\ running' = IF connected THEN ZoteroRunningAfter(c) ELSE running
  /\ UNCHANGED <<connected, readonly, storage, wal, schema>>

ValidateArgs == {NullID, 1, 2}

ValidateAttachments ==
  \E itemID \in ValidateArgs, checkAll \in BOOLEAN :
    Call("validateAttachments", <<itemID, checkAll>>,
         queryAll(Start, validateAttachments(db, itemID, checkAll)))

DeleteOrphanAttachmentsAmid ==
  \E dryRun \in BOOLEAN, flipAt \in 0..MaxFlip :
    CallAmid("deleteOrphanAttachments", <<dryRun>>,
             deleteOrphanAttachments([Start EXCEPT !.flipAt = flipAt], dryRun))

SimilarArgs == {1, 2, 3, BogusID}
Thresholds == 0..3
TieOrders == {"asc", "desc"}

FindSimilarByTags ==
  \E itemID \in SimilarArgs, m \in Thresholds, ties \in TieOrders :
    Call("findSimilarByTags", <<itemID, m>>,
         queryAll(Start, findSimilarByTags(db, itemID, m, ties)))

\* The forms in which a DOI is handed to a lookup.
Forms(doi) ==
  {doi, <<"https://doi.org/">> \o doi, <<"HTTPS://DOI.ORG/">> \o doi,
   <<"http://doi.org/">> \o doi, <<"doi:">> \o doi, <<"DOI:">> \o doi,
   <<" ">> \o doi \o <<" ">>}

DOIArgs ==
  UNION {Forms(doi) : doi \in {<<"10.1/a">>, <<"10.1/A">>, <<"10.2/b">>,
                               <<"doi:", "10.2/b">>, <<"10.9/z">>}}

FindItemByDOI ==
  \E doi \in DOIArgs :
    Call("findItemByDOI", <<doi>>, queryAll(Start, findItemByDOI(db, doi)))

\* Collection calls that can name a collection created during the session.
NewCollNames == {"c3", "c4"}
NewCollArgs == {1, 2, 3, 4}

CreateSubcollection ==
  \E name \in NewCollNames, parent \in {NullID} \cup NewCollArgs :
    Call("createCollection", <<name, parent>>,
         createCollection(Start, name, parent))

MoveSubcollection ==
  \E cid \in NewCollArgs, parent \in {NullID} \cup NewCollArgs :
    Call("moveCollection", <<cid, parent>>, moveCollection(Start, cid, parent))

GetSubcollections ==
  \E parent \in NewCollArgs :
    Call("getSubcollections", <<parent>>,
         queryAll(Start, getSubcollections(db, parent)))

DuplicateFields == {"title", "doi", "isbn"}

FindDuplicates ==
  \E field \in DuplicateFields, ties \in TieOrders :
    Call("findDuplicates", <<field>>,
         queryAll(Start, findDuplicates(db, field, ties)))

GetItemTags ==
  \E itemID \in ItemArgs :
    Call("getItemTags", <<itemID>>, queryAll(Start, getItemTags(db, itemID)))

GetItemNotes ==
  \E itemID \in ItemArgs :
    Call("getItemNotes", <<itemID>>, queryAll(Start, getItemNotes(db, itemID)))

FindOrphanAttachments ==
  Call("findOrphanAttachments", <<>>,
       queryAll(Start, findOrphanAttachments(db)))

\* toUpperCase() on a piece
UpperPiece(x) == IF x = "select" THEN "SELECT" ELSE x

\* The statements handed to raw_query: pieces, the last one the table named.
Statements ==
  {<<"SELECT", "tags">>, <<" ", "select", "items">>, <<"DELETE", "tags">>,
   <<" ", "UPDATE", "items">>}

\* raw_query: refuses what does not start with SELECT once trimmed and put
\* in upper case, and hands the rest to query(), which is queryAll.
rawQuery(c, sql) ==
  IF UpperPiece(Head(Trim(sql))) # "SELECT" THEN Throw(c, "OnlySelect")
  ELSE queryAll(c, IF sql[Len(sql)] = "tags" THEN c.db.tags ELSE c.db.items)

RawQuery ==
  \E sql \in Statements : Call("rawQuery", <<sql>>, rawQuery(Start, sql))

\* What Math.random may give to one generateKey call: among others the
\* draws that made the keys of collection 2 and of item 5.
KeyDraws ==
  {DrawsOf(2), DrawsOf(5), DrawsOf(30), [i \in 1..KeyLength |-> 3 * i]}

CreateCollectionDrawing ==
  \E name \in CollNames, parent \in {NullID, 1}, draws \in KeyDraws :
    Call("createCollection", <<name, parent>>,
         createCollection([Start EXCEPT !.random = <<draws>>], name, parent))

AddItemNoteDrawing ==
  \E itemID \in {1, 2}, note \in NoteArgs, draws \in KeyDraws :
    Call("addItemNote", <<itemID, note>>,
         addItemNote([Start EXCEPT !.random = <<draws>>], itemID, note,
                     NoTitle))

\* The single-item calls, with Zotero starting or quitting before one of
\* their process checks.
AddItemNoteAmid ==
  \E itemID \in ItemArgs, note \in NoteArgs, flipAt \in 0..MaxFlip :
    CallAmid("addItemNote", <<itemID, note>>,
             addItemNote([Start EXCEPT !.flipAt = flipAt], itemID, note,
                         NoTitle))

SetItemAbstractAmid ==
  \E itemID \in ItemArgs, abstract \in AbstractVals, flipAt \in 0..MaxFlip :
    CallAmid("setItemAbstract", <<itemID, abstract>>,
             setItemAbstract([Start EXCEPT !.flipAt = flipAt], itemID,
                             abstract))

AddTagToItemAmid ==
  \E itemID \in ItemArgs, name \in TagNames, type \in TagTypes,
     flipAt \in 0..MaxFlip :
    CallAmid("addTagToItem", <<itemID, name, type>>,
             addTagToItem([Start EXCEPT !.flipAt = flipAt], itemID, name, type))

AddItemToCollectionAmid ==
  \E itemID \in ItemArgs, cid \in CollArgs, flipAt \in 0..MaxFlip :
    CallAmid("addItemToCollection", <<itemID, cid>>,
             addItemToCollection([Start EXCEPT !.flipAt = flipAt], itemID, cid))

RemoveItemFromCollectionAmid ==
  \E itemID \in ItemArgs, cid \in CollArgs, flipAt \in 0..MaxFlip :
    CallAmid("removeItemFromCollection", <<itemID, cid>>,
             removeItemFromCollection([Start EXCEPT !.flipAt = flipAt],
                                      itemID, cid))

\* save() called by the owner of the object, with Zotero starting or
\* quitting before its process check or between the checks and the overwrite.
SaveAmid ==
  \E flipAt \in 0..MaxFlip :
    /\ clock <= MaxOps
    /\ LET c == save([Start EXCEPT !.flipAt = flipAt]) IN
         /\ Finish("save", <<>>, c)
         /\ running' = ZoteroRunningAfter(c)
    /\ clock' = clock + 1
    /\ UNCHANGED <<connected, readonly, storage, wal, schema>>

\* ------------------------------------------------------------ environment
Env(r, w) ==
  /\ running' = r
  /\ wal' = w
  /\ UNCHANGED <<db, connected, readonly, backupPath, hasUnsavedChanges,
                 file, backups, storage, schema, clock, changed, session,
                 last>>

ZoteroStarts == ~running /\ Env(TRUE, wal)

ZoteroQuits == running /\ Env(FALSE, wal)

SentinelAppears == ~wal /\ Env(running, TRUE)

SentinelRemoved == wal /\ Env(running, FALSE)

Next ==
  \/ Connect
  \/ Disconnect
  \/ Save
  \/ CreateCollection
  \/ RenameCollection
  \/ MoveCollection
  \/ DeleteCollection
  \/ CreateTag
  \/ AddTagToItem
  \/ RemoveTagFromItem
  \/ AddItemToCollection
  \/ RemoveItemFromCollection
  \/ SetItemAbstract
  \/ AddItemNote
  \/ DeleteOrphanAttachments
  \/ MergeItems
  \/ ZoteroStarts
  \/ ZoteroQuits
  \/ SentinelAppears
  \/ SentinelRemoved

Spec == Init /\ [][Next]_vars

\* ---------------------------------------------------- other specifications
\* The same object opened with --readonly.
InitReadonly ==
  /\ file \in {BaseImage, TaggedImage}
  /\ db = ClosedImage
  /\ connected = FALSE
  /\ readonly = TRUE
  /\ backupPath = 0
  /\ hasUnsavedChanges = FALSE
  /\ backups = <<>>
  /\ storage = {}
  /\ running \in BOOLEAN
  /\ wal \in BOOLEAN
  /\ schema \in {"strict", "lenient"}
  /\ clock = 1
  /\ changed = FALSE
  /\ session = NewSession
  /\ last = [op |-> "new", args |-> <<>>, ret |-> 0, err |-> "",
             wrote |-> 0, backedUp |-> 0, live |-> 0]

SpecReadonly == InitReadonly /\ [][Next]_vars

\* The same object over a file that PRAGMA integrity_check does not pass.
InitCorrupt ==
  /\ file \in {[BaseImage EXCEPT !.integrity = "corrupt"],
               [TaggedImage EXCEPT !.integrity = "corrupt"]}
  /\ db = ClosedImage
  /\ connected = FALSE
  /\ readonly = FALSE
  /\ backupPath = 0
  /\ hasUnsavedChanges = FALSE
  /\ backups = <<>>
  /\ storage = {}
  /\ running \in BOOLEAN
  /\ wal \in BOOLEAN
  /\ schema \in {"strict", "lenient"}
  /\ clock = 1
  /\ changed = FALSE
  /\ session = NewSession
  /\ last = [op |-> "new", args |-> <<>>, ret |-> 0, err |-> "",
             wrote |-> 0, backedUp |-> 0, live |-> 0]

SpecCorrupt == InitCorrupt /\ [][Next]_vars

\* Attachment maintenance: a library with several attachments, any of their
\* files present or missing, opened writable or read-only.
InitAttachments ==
  /\ file = AttachmentImage
  /\ db = ClosedImage
  /\ connected = FALSE
  /\ readonly \in BOOLEAN
  /\ backupPath = 0
  /\ hasUnsavedChanges = FALSE
  /\ backups = <<>>
  /\ storage \in SUBSET DOMAIN AttachmentImage.itemAttachments
  /\ running \in BOOLEAN
  /\ wal = FALSE
  /\ schema \in {"strict", "lenient"}
  /\ clock = 0
  /\ changed = FALSE
  /\ session = NewSession
  /\ last = [op |-> "new", args |-> <<>>, ret |-> 0, err |-> "",
             wrote |-> 0, backedUp |-> 0, live |-> 0]

NextAttachments ==
  \/ Connect
  \/ ValidateAttachments
  \/ DeleteOrphanAttachmentsAmid
  \/ ZoteroStarts
  \/ ZoteroQuits

SpecAttachments == InitAttachments /\ [][NextAttachments]_vars

\* Work on the collection tree: three calls in a row.
InitCollections ==
  /\ file = BaseImage
  /\ db = ClosedImage
  /\ connected = FALSE
  /\ readonly = FALSE
  /\ backupPath = 0
  /\ hasUnsavedChanges = FALSE
  /\ backups = <<>>
  /\ storage = {}
  /\ running = FALSE
  /\ wal = FALSE
  /\ schema \in {"strict", "lenient"}
  /\ clock = -1
  /\ changed = FALSE
  /\ session = NewSession
  /\ last = [op |-> "new", args |-> <<>>, ret |-> 0, err |-> "",
             wrote |-> 0, backedUp |-> 0, live |-> 0]

NextCollections ==
  \/ Connect
  \/ CreateSubcollection
  \/ MoveSubcollection
  \/ GetSubcollections

SpecCollections == InitCollections /\ [][NextCollections]_vars

\* Creating rows with keys drawn at random: two calls in a row.
InitKeys ==
  /\ file = BaseImage
  /\ db = ClosedImage
  /\ connected = FALSE
  /\ readonly = FALSE
  /\ backupPath = 0
  /\ hasUnsavedChanges = FALSE
  /\ backups = <<>>
  /\ storage = {}
  /\ running = FALSE
  /\ wal = FALSE
  /\ schema \in {"strict", "lenient"}
  /\ clock = 0
  /\ changed = FALSE
  /\ session = NewSession
  /\ last = [op |-> "new", args |-> <<>>, ret |-> 0, err |-> "",
             wrote |-> 0, backedUp |-> 0, live |-> 0]

NextKeys ==
  \/ Connect
  \/ CreateCollectionDrawing
  \/ AddItemNoteDrawing

SpecKeys == InitKeys /\ [][NextKeys]_vars

\* Calls during which the Zotero process comes or goes.
NextAmid ==
  \/ Connect
  \/ Save
  \/ AddItemNoteAmid
  \/ SetItemAbstractAmid
  \/ AddTagToItemAmid
  \/ AddItemToCollectionAmid
  \/ RemoveItemFromCollectionAmid
  \/ ZoteroStarts
  \/ ZoteroQuits

SpecAmid == Init /\ [][NextAmid]_vars

\* Deleting: a library whose attachments are filed and tagged, any of the
\* stored files missing, two calls in a row.
InitDeletes ==
  /\ file = LinkedAttachmentImage
  /\ db = ClosedImage
  /\ connected = FALSE
  /\ readonly = FALSE
  /\ backupPath = 0
  /\ hasUnsavedChanges = FALSE
  /\ backups = <<>>
  /\ storage \in SUBSET {5, 6}
  /\ running \in BOOLEAN
  /\ wal = FALSE
  /\ schema \in {"strict", "lenient"}
  /\ clock = 0
  /\ changed = FALSE
  /\ session = NewSession
  /\ last = [op |-> "new", args |-> <<>>, ret |-> 0, err |-> "",
             wrote |-> 0, backedUp |-> 0, live |-> 0]

NextDeletes ==
  \/ Connect
  \/ DeleteCollection
  \/ DeleteOrphanAttachments
  \/ ZoteroStarts
  \/ ZoteroQuits

SpecDeletes == InitDeletes /\ [][NextDeletes]_vars

\* Reading: a mutating call and a query, or two queries, with Zotero and the
\* sentinel files coming and going.
InitReads ==
  /\ file = FieldImage(OldTypeIDs)
  /\ db = ClosedImage
  /\ connected = FALSE
  /\ readonly \in BOOLEAN
  /\ backupPath = 0
  /\ hasUnsavedChanges = FALSE
  /\ backups = <<>>
  /\ storage \in {{}, {5}}
  /\ running \in BOOLEAN
  /\ wal \in BOOLEAN
  /\ schema = "strict"
  /\ clock = 0
  /\ changed = FALSE
  /\ session = NewSession
  /\ last = [op |-> "new", args |-> <<>>, ret |-> 0, err |-> "",
             wrote |-> 0, backedUp |-> 0, live |-> 0]

NextReads ==
  \/ Connect
  \/ RenameCollection
  \/ GetSubcollections
  \/ GetItemTags
  \/ GetItemNotes
  \/ FindItemByDOI
  \/ FindSimilarByTags
  \/ FindDuplicates
  \/ ValidateAttachments
  \/ FindOrphanAttachments
  \/ RawQuery
  \/ ZoteroStarts
  \/ ZoteroQuits
  \/ SentinelAppears
  \/ SentinelRemoved

SpecReads == InitReads /\ [][NextReads]_vars

\* Sessions of one object: two calls in a row, with disconnect and connect
\* between them or not, next to a Zotero that comes and goes.
InitSessions ==
  /\ file = BaseImage
  /\ db = ClosedImage
  /\ connected = FALSE
  /\ readonly = FALSE
  /\ backupPath = 0
  /\ hasUnsavedChanges = FALSE
  /\ backups = <<>>
  /\ storage = {}
  /\ running \in BOOLEAN
  /\ wal \in BOOLEAN
  /\ schema \in {"strict", "lenient"}
  /\ clock = 0
  /\ changed = FALSE
  /\ session = NewSession
  /\ last = [op |-> "new", args |-> <<>>, ret |-> 0, err |-> "",
             wrote |-> 0, backedUp |-> 0, live |-> 0]

NextSessions ==
  \/ Connect
  \/ Disconnect
  \/ SaveAmid
  \/ RenameCollection
  \/ ZoteroStarts
  \/ ZoteroQuits
  \/ SentinelAppears
  \/ SentinelRemoved

SpecSessions == InitSessions /\ [][NextSessions]_vars

\* The read-only lookups, over libraries of several shapes.
LookupImages ==
  {BaseImage, TaggedImage, CrowdedImage,
   FieldImage(OldTypeIDs), FieldImage(NewTypeIDs)}

InitLookup ==
  /\ file \in LookupImages
  /\ db = ClosedImage
  /\ connected = FALSE
  /\ readonly \in BOOLEAN
  /\ backupPath = 0
  /\ hasUnsavedChanges = FALSE
  /\ backups = <<>>
  /\ storage = {}
  /\ running \in BOOLEAN
  /\ wal = FALSE
  /\ schema = "strict"
  /\ clock = 1
  /\ changed = FALSE
  /\ session = NewSession
  /\ last = [op |-> "new", args |-> <<>>, ret |-> 0, err |-> "",
             wrote |-> 0, backedUp |-> 0, live |-> 0]

NextLookup ==
  \/ Connect
  \/ FindSimilarByTags
  \/ FindItemByDOI
  \/ FindDuplicates

SpecLookup == InitLookup /\ [][NextLookup]_vars

\* ------------------------------------------------------------- properties
\* The step is an accessor call on an open database.
AccessorStep == clock' = clock + 1

\* The step is a call (accessor, save or disconnect) that wrote the file.
WriteStep == last'.wrote > 0 /\ running' = running /\ wal' = wal

Succeeded(l) == l.err = ""

ReturnedTrue(l) == l.err = "" /\ l.ret = TRUE

\* C1: a single-item mutating call that reports success on an existing item
\* raises that item's version by exactly 1, clears its synced flag and leaves
\* dateModified equal to clientDateModified; the version of every other
\* item that existed before the call is unchanged.
BooleanItemOps ==
  {"addTagToItem", "removeTagFromItem", "addItemToCollection",
   "removeItemFromCollection", "setItemAbstract"}

ReportsSuccess(l) ==
  \/ l.op \in BooleanItemOps /\ ReturnedTrue(l)
  \/ l.op = "addItemNote" /\ Succeeded(l)

C1_MetadataBump ==
  [][(AccessorStep /\ ReportsSuccess(last')) =>
       LET i == last'.args[1] IN
       /\ i \in DOMAIN db.items =>
            /\ i \in DOMAIN db'.items
            /\ db'.items[i].version = db.items[i].version + 1
            /\ db'.items[i].synced = FALSE
            /\ db'.items[i].dateModified = db'.items[i].clientDateModified
       /\ \A j \in DOMAIN db.items \ {i} :
            /\ j \in DOMAIN db'.items
            /\ db'.items[j].version = db.items[j].version]_vars

C1_Witness ==
  /\ connected
  /\ last.op = "removeItemFromCollection"
  /\ ReturnedTrue(last)
  /\ last.args[1] \in DOMAIN db.items
  /\ db.items[last.args[1]].version = 1
  /\ db.items[last.args[1]].synced = FALSE

\* C2: in a writable session, a mutating call made while Zotero runs or a
\* sentinel file exists returns a live-writer error and leaves the file as
\* it was.
MutatingCall(l) ==
  \/ l.op \in {"createCollection", "renameCollection", "moveCollection",
               "deleteCollection", "createTag", "addTagToItem",
               "removeTagFromItem", "addItemToCollection",
               "removeItemFromCollection", "setItemAbstract", "addItemNote",
               "mergeItems"}
  \/ l.op = "deleteOrphanAttachments" /\ l.args[1] = FALSE

C2_GuardRefuses ==
  [][(AccessorStep /\ ~readonly /\ MutatingCall(last')
        /\ (isZoteroRunning \/ hasWALFiles)) =>
       /\ last'.err \in LiveWriterErrors
       /\ file' = file]_vars

RECURSIVE Ancestors(_, _, _)
Ancestors(d, cid, seen) ==
  LET p == IF cid \in DOMAIN d.collections
           THEN d.collections[cid].parent ELSE NullID
  IN IF p = NullID \/ p \in seen THEN seen
     ELSE Ancestors(d, p, seen \cup {p})

Acyclic(d) == \A c \in DOMAIN d.collections : c \notin Ancestors(d, c, {})

C4_NoCollectionCycle == Acyclic(db) /\ Acyclic(file)

\* C5: every itemTags row that addTagToItem creates, called directly or by
\* mergeItems, carries the type it was asked to attach (never NULL).
C5_TagTypePresent ==
  [][AccessorStep =>
       /\ last'.op = "addTagToItem" =>
            \A r \in db'.itemTags \ db.itemTags : r.type = last'.args[3]
       /\ last'.op = "mergeItems" =>
            \A r \in db'.itemTags \ db.itemTags :
              \E s \in db.itemTags :
                s.tagID = r.tagID /\ s.type = r.type]_vars

\* C6: opened read-only, no call ever writes the database file or creates a
\* backup file.
C6_ReadonlyNeverWrites ==
  [][/\ file' = file
     /\ backups' = <<>>
     /\ last'.wrote = 0
     /\ last'.backedUp = 0]_vars

C6_Witness ==
  /\ readonly
  /\ connected
  /\ last.op = "save"
  /\ hasUnsavedChanges
  /\ db # file

\* C7: a disconnect of a session in which no call changed the in-memory
\* image since connect or the last save writes nothing to the file and
\* creates no backup.
C7_CleanDisconnectIsNoop ==
  [][(connected /\ ~connected' /\ last'.op = "disconnect" /\ ~changed) =>
       /\ last'.wrote = 0
       /\ last'.backedUp = 0
       /\ file' = file
       /\ backups' = backups]_vars

\* C8: connect does not complete normally on a database that fails the
\* integrity probe.
C8_ConnectFailsOnBadProbe ==
  ~(last.op = "connect" /\ Succeeded(last) /\ connected /\ ~verifyIntegrity(db))

\* The sources of a merge that are not the target, with repetitions.
RECURSIVE OtherSources(_, _)
OtherSources(target, sources) ==
  IF sources = <<>> THEN <<>>
  ELSE IF Head(sources) = target THEN OtherSources(target, Tail(sources))
  ELSE <<Head(sources)>> \o OtherSources(target, Tail(sources))

NoteCount(d, itemID) == Len(getItemNotes(d, itemID))

TagCount(d, itemID) == Len(getItemTags(d, itemID))

TagNamesOf(d, itemID) == {getItemTags(d, itemID)[k].name :
                            k \in 1..TagCount(d, itemID)}

SourceNotes(d, srcs) == SeqSum([k \in 1..Len(srcs) |-> NoteCount(d, srcs[k])])

SourceTags(d, srcs) == SeqSum([k \in 1..Len(srcs) |-> TagCount(d, srcs[k])])

\* C9: a merge in which no transfer fails returns success = true and no
\* errors, counts every note and every tag attachment of the sources other
\* than the target, and leaves the target with every tag name of every
\* source and one new note per source note.
C9_MergeTransfersAll ==
  [][(AccessorStep /\ last'.op = "mergeItems" /\ Succeeded(last')
        /\ last'.ret.errors = <<>>) =>
       LET t == last'.args[1]
           srcs == OtherSources(t, last'.args[2])
           fresh == DOMAIN db'.itemNotes \ DOMAIN db.itemNotes
       IN /\ last'.ret.success = TRUE
          /\ last'.ret.notes = SourceNotes(db, srcs)
          /\ last'.ret.tags = SourceTags(db, srcs)
          /\ \A k \in 1..Len(srcs) :
               TagNamesOf(db, srcs[k]) \subseteq TagNamesOf(db', t)
          /\ Cardinality(fresh) = SourceNotes(db, srcs)
          /\ \A n \in fresh :
               /\ db'.itemNotes[n].parentItemID = t
               /\ \E k \in 1..Len(srcs) :
                    \E m \in DOMAIN db.itemNotes :
                      /\ db.itemNotes[m].parentItemID = srcs[k]
                      /\ db'.itemNotes[n].note = db.itemNotes[m].note
                      /\ db'.itemNotes[n].title
                           = MergedTitle(db.itemNotes[m].title)]_vars

C9_Witness ==
  /\ last.op = "mergeItems"
  /\ Succeeded(last)
  /\ last.args = <<1, <<2, 3>>>>
  /\ last.ret.success = TRUE
  /\ last.ret.tags = 3
  /\ last.ret.notes = 1
  /\ TagNamesOf(db, 1) = {"t1", "t2"}
  /\ NoteCount(db, 1) = 1

\* The merge of A = 2 (two tags, one note) and B = 3 (one tag) into 1.
MergeScenario(d, l) ==
  /\ l.op = "mergeItems"
  /\ l.args = <<1, <<2, 3>>>>
  /\ NoteCount(d, 2) = 1
  /\ TagCount(d, 2) = 2
  /\ NoteCount(d, 3) = 0
  /\ TagCount(d, 3) = 1

Failed(l, what, sourceID) ==
  \E k \in 1..Len(l.ret.errors) :
    l.ret.errors[k].what = what /\ l.ret.errors[k].source = sourceID

\* C10 as stated: in the scenario, when the note transfer of A fails and the
\* tag transfer of B succeeds, the merge returns success = false, tags = 2,
\* notes = 0 and exactly one error, which names A.
C10_AsStated ==
  [][(AccessorStep /\ Succeeded(last') /\ MergeScenario(db, last')
        /\ Failed(last', "notes", 2) /\ ~Failed(last', "tags", 3)) =>
       /\ last'.ret.success = FALSE
       /\ last'.ret.tags = 2
       /\ last'.ret.notes = 0
       /\ Len(last'.ret.errors) = 1
       /\ last'.ret.errors[1].source = 2]_vars

\* The sources of the list whose transfer of the given kind left no error.
RECURSIVE Unfailed(_, _, _)
Unfailed(l, what, srcs) ==
  IF srcs = <<>> THEN <<>>
  ELSE IF Failed(l, what, Head(srcs)) THEN Unfailed(l, what, Tail(srcs))
  ELSE <<Head(srcs)>> \o Unfailed(l, what, Tail(srcs))

\* C10 (amended): mergeItems returns normally; success is false exactly when
\* an error was recorded; every error names a source of the list; the notes
\* and tags of every source whose transfer left no error are counted and its
\* tag names are on the target, whatever failed for other sources or for the
\* other transfer of the same source; and in the scenario, when the note
\* transfer of A is the only failure, the merge returns success = false,
\* tags = 3, notes = 0 and exactly one error, which names A.
C10_PartialSuccess ==
  [][(AccessorStep /\ last'.op = "mergeItems") =>
       LET l == last'
           t == l.args[1]
           srcs == OtherSources(t, l.args[2])
       IN /\ Succeeded(l)
          /\ l.ret.success = (l.ret.errors = <<>>)
          /\ \A k \in 1..Len(l.ret.errors) :
               \E j \in 1..Len(srcs) : l.ret.errors[k].source = srcs[j]
          /\ l.ret.notes >= SourceNotes(db, Unfailed(l, "notes", srcs))
          /\ l.ret.tags >= SourceTags(db, Unfailed(l, "tags", srcs))
          /\ \A j \in 1..Len(srcs) :
               ~Failed(l, "tags", srcs[j]) =>
                 TagNamesOf(db, srcs[j]) \subseteq TagNamesOf(db', t)
          /\ (MergeScenario(db, l) /\ Failed(l, "notes", 2)
                /\ ~Failed(l, "tags", 2) /\ ~Failed(l, "tags", 3)) =>
               /\ l.ret.success = FALSE
               /\ l.ret.tags = 3
               /\ l.ret.notes = 0
               /\ Len(l.ret.errors) = 1
               /\ l.ret.errors[1].source = 2]_vars

C10_Witness ==
  /\ MergeScenario(db, last)
  /\ Succeeded(last)
  /\ Failed(last, "notes", 2)
  /\ last.ret.success = FALSE
  /\ last.ret.tags = 3
  /\ last.ret.notes = 0
  /\ Len(last.ret.errors) = 1

\* The itemNotes rows under an item and the itemTags rows of an item.
NoteRowsOf(d, itemID) ==
  {<<n, d.itemNotes[n]>> : n \in {m \in DOMAIN d.itemNotes :
                                    d.itemNotes[m].parentItemID = itemID}}

TagRowsOf(d, itemID) == {r \in d.itemTags : r.itemID = itemID}

\* C11: a mergeItems call, whatever it returns, deletes no item and leaves
\* every source other than the target as it was: the same item row (version
\* and synced included), the same notes, the same tag attachments.
C11_MergeLeavesSources ==
  [][(AccessorStep /\ last'.op = "mergeItems") =>
       LET t == last'.args[1]
           srcs == OtherSources(t, last'.args[2])
       IN /\ DOMAIN db.items \subseteq DOMAIN db'.items
          /\ \A k \in 1..Len(srcs) :
               /\ srcs[k] \in DOMAIN db.items =>
                    db'.items[srcs[k]] = db.items[srcs[k]]
               /\ NoteRowsOf(db', srcs[k]) = NoteRowsOf(db, srcs[k])
               /\ TagRowsOf(db', srcs[k]) = TagRowsOf(db, srcs[k])]_vars

C11_Witness ==
  /\ last.op = "mergeItems"
  /\ Succeeded(last)
  /\ last.args = <<1, <<3, 2>>>>
  /\ last.ret.notes = 1
  /\ NoteCount(db, 1) = 1
  /\ NoteCount(db, 2) = 1
  /\ TagCount(db, 2) = 2
  /\ db.items[2].version = 0
  /\ db.items[2].synced = TRUE
  /\ db.items[1].version > 0

\* The step is a deleteOrphanAttachments call on an open database.
OrphanStep == AccessorStep /\ last'.op = "deleteOrphanAttachments"

\* C12: deleteOrphanAttachments called with dryRun = true, or with any
\* dryRun on a read-only database, leaves the image, the dirty flag and the
\* file as they were and returns deleted = 0, and validateAttachments
\* reports after it the missing set it reported before it.
C12_DryRunChangesNothing ==
  [][(OrphanStep /\ (last'.args[1] = TRUE \/ readonly)) =>
       /\ Succeeded(last')
       /\ last'.ret.deleted = 0
       /\ db' = db
       /\ hasUnsavedChanges' = hasUnsavedChanges
       /\ file' = file
       /\ \A itemID \in ValidateArgs, checkAll \in BOOLEAN :
            validateAttachments(db', itemID, checkAll).missing
              = validateAttachments(db, itemID, checkAll).missing]_vars

C12_Witness ==
  /\ readonly
  /\ last.op = "deleteOrphanAttachments"
  /\ Succeeded(last)
  /\ last.args[1] = FALSE
  /\ last.ret.orphans = <<5, 6>>
  /\ last.ret.deleted = 0
  /\ validateAttachments(db, NullID, TRUE).missing = <<5, 6, 7>>

\* The orphans of the list with neither an itemAttachments row nor an items
\* row left.
Removed(d, orphans) ==
  {k \in 1..Len(orphans) : /\ orphans[k] \notin DOMAIN d.itemAttachments
                           /\ orphans[k] \notin DOMAIN d.items}

\* C13: deleteOrphanAttachments(false) on a writable database returns
\* normally, reports every orphan found, and its deleted count is the number
\* of orphans with both rows removed; with Zotero not running during the
\* call that is every orphan, and when Zotero quits during the call the
\* orphans whose turn comes after are removed although earlier ones failed.
C13_DeletesEveryOrphan ==
  [][(OrphanStep /\ last'.args[1] = FALSE /\ ~readonly) =>
       LET orphans == findOrphanAttachments(db) IN
       /\ Succeeded(last')
       /\ last'.ret.orphans = orphans
       /\ last'.ret.deleted = Cardinality(Removed(db', orphans))
       /\ (~running /\ ~running') =>
            Removed(db', orphans) = 1..Len(orphans)
       /\ (running /\ ~running' /\ orphans # <<>>) =>
            /\ Len(orphans) \in Removed(db', orphans)
            /\ \A k \in Removed(db', orphans) :
                 \A j \in k..Len(orphans) : j \in Removed(db', orphans)]_vars

C13_Witness ==
  /\ ~readonly
  /\ last.op = "deleteOrphanAttachments"
  /\ Succeeded(last)
  /\ last.args[1] = FALSE
  /\ last.ret.orphans = <<5, 6>>
  /\ last.ret.deleted = 1
  /\ 5 \in DOMAIN db.items
  /\ 5 \in DOMAIN db.itemAttachments
  /\ 6 \notin DOMAIN db.items
  /\ 6 \notin DOMAIN db.itemAttachments

\* What an item owns: its tag attachments, its collection memberships, its
\* field values and its child notes.
OwnedData(d, itemID) ==
  [tags |-> TagRowsOf(d, itemID),
   collections |-> {r \in d.collectionItems : r[1] = itemID},
   fields |-> {r \in d.itemFields : r.itemID = itemID},
   abstract |-> IF itemID \in DOMAIN d.itemData
                THEN <<d.itemData[itemID]>> ELSE <<>>,
   notes |-> {n \in DOMAIN d.itemNotes : d.itemNotes[n].parentItemID = itemID}]

\* C14: after a call that completes, every item whose tags, collection
\* memberships, field values or child notes differ from before the call has
\* a higher version and synced = false.
C14_EveryChangeBumps ==
  [][(AccessorStep /\ Succeeded(last')) =>
       \A i \in DOMAIN db.items \cap DOMAIN db'.items :
         OwnedData(db', i) # OwnedData(db, i) =>
           /\ db'.items[i].version > db.items[i].version
           /\ db'.items[i].synced = FALSE]_vars

\* The tags two items have in common.
SharedTags(d, a, b) ==
  {t \in DOMAIN d.tags :
     /\ \E r \in d.itemTags : r.itemID = a /\ r.tagID = t
     /\ \E r \in d.itemTags : r.itemID = b /\ r.tagID = t}

StoredDOIs(d) ==
  {r.value : r \in {x \in d.itemFields :
                      x.field = "DOI" /\ x.itemID \in DOMAIN d.items}}

SubcollectionIDs(d, parent) ==
  {getSubcollections(d, parent)[k].collectionID :
     k \in 1..Len(getSubcollections(d, parent))}

Children(d, parent) ==
  {c \in DOMAIN d.collections : d.collections[c].parent = parent}

FieldValues(d, field, itemID) ==
  {r.value : r \in {x \in d.itemFields :
                      x.field = FieldName(field) /\ x.itemID = itemID}}

\* C18: every group findDuplicates returns has more than one member and a
\* count equal to the number of its ids, the groups come by count, highest
\* first, the members of a group have the same normalized key, and no note
\* and no attachment is a member of a group.
C18_DuplicateGroups ==
  [][(AccessorStep /\ last'.op = "findDuplicates" /\ Succeeded(last')) =>
       LET field == last'.args[1]
           res == last'.ret
       IN /\ \A k \in 1..Len(res) :
               /\ res[k].count > 1
               /\ res[k].count = Len(res[k].itemIDs)
               /\ \A a, b \in 1..Len(res[k].itemIDs) :
                    \E v \in FieldValues(db, field, res[k].itemIDs[a]) :
                      \E w \in FieldValues(db, field, res[k].itemIDs[b]) :
                        GroupKey(field, v) = GroupKey(field, w)
               /\ \A a \in 1..Len(res[k].itemIDs) :
                    db.items[res[k].itemIDs[a]].itemType
                      \notin {NoteType, AttachmentType}
          /\ \A k \in 1..(Len(res) - 1) : res[k].count >= res[k + 1].count]_vars

KeyAlphabet == {KeyChars[k] : k \in 1..Len(KeyChars)}

WellFormedKey(key) ==
  /\ Len(key) = 8
  /\ \A k \in 1..Len(key) : key[k] \in KeyAlphabet

WellFormedKeys(d) ==
  /\ \A i \in DOMAIN d.items : WellFormedKey(d.items[i].key)
  /\ \A c \in DOMAIN d.collections : WellFormedKey(d.collections[c].key)

UniqueKeys(d) ==
  /\ \A i, j \in DOMAIN d.items : d.items[i].key = d.items[j].key => i = j
  /\ \A a, b \in DOMAIN d.collections :
       d.collections[a].key = d.collections[b].key => a = b

C20_NoPartialEffect ==
  [][AccessorStep =>
       /\ last'.op = "addItemNote" =>
            \A n \in DOMAIN db'.items \ DOMAIN db.items :
              /\ n \in DOMAIN db'.itemNotes
              /\ db'.items[last'.args[1]].version
                   = db.items[last'.args[1]].version + 1
              /\ db'.items[last'.args[1]].synced = FALSE
       /\ last'.op \in BooleanItemOps =>
            \A i \in DOMAIN db.items \cap DOMAIN db'.items :
              OwnedData(db', i) # OwnedData(db, i) =>
                /\ db'.items[i].version = db.items[i].version + 1
                /\ db'.items[i].synced = FALSE]_vars

\* C21: addItemNote on an open database with a parentItemID that matches no
\* item fails with 'Parent item not found' and changes nothing: the image
\* (items, itemNotes, every item's metadata), the dirty flag, the file and
\* the backups are as before the call.
C21_UnknownParentFails ==
  [][(AccessorStep /\ last'.op = "addItemNote"
        /\ last'.args[1] \notin DOMAIN db.items) =>
       /\ last'.err = "ParentNotFound"
       /\ db' = db
       /\ hasUnsavedChanges' = hasUnsavedChanges
       /\ file' = file
       /\ backups' = backups
       /\ backupPath' = backupPath]_vars

C21_Witness ==
  /\ connected
  /\ last.op = "addItemNote"
  /\ last.args[1] = BogusID
  /\ BogusID \notin DOMAIN db.items
  /\ last.err = "ParentNotFound"
  /\ ~running
  /\ ~wal
  /\ db = file
  /\ ~hasUnsavedChanges

\* C22: the guard is check-then-act.  A call overwrites the file while Zotero
\* is running only when Zotero started after the call's last look at the
\* process; and a save() that has passed its process and sentinel checks
\* overwrites the file whatever the process does after them, so that a state
\* is reached in which Zotero has started after the checks and save() has
\* written the file under it.
C22_CheckThenAct ==
  [][AccessorStep =>
       /\ last'.live > 0 =>
            /\ ~running
            /\ ~wal
            /\ running'
            /\ file' = db'
       /\ (last'.op = "save" /\ connected /\ ~readonly /\ hasUnsavedChanges
             /\ ~running /\ ~wal /\ Succeeded(last')) =>
            /\ last'.wrote = 1
            /\ file' = db]_vars

C22_Witness ==
  /\ last.op = "save"
  /\ Succeeded(last)
  /\ last.wrote = 1
  /\ last.live = 1
  /\ running
  /\ file = db
  /\ backups # <<>>
  /\ backups[1] # file

\* C23: in every session (from connect to the matching disconnect) in which
\* the file is overwritten exactly one backup is created, and it is created
\* before the first overwrite of that session, holding the file as it was;
\* a session opened by connect after a disconnect of the same object is no
\* exception.
C23_BackupPerSession ==
  [][session'.writes > 0 =>
       /\ session'.backups = 1
       /\ session.writes = 0 => backups' = Append(backups, file)]_vars

\* The join rows that point at an item, a collection or a tag that is not
\* there.
DanglingRows(d) ==
  [collectionItems |-> {r \in d.collectionItems :
                          \/ r[1] \notin DOMAIN d.items
                          \/ r[2] \notin DOMAIN d.collections},
   itemTags |-> {r \in d.itemTags :
                   \/ r.itemID \notin DOMAIN d.items
                   \/ r.tagID \notin DOMAIN d.tags}]

NoDanglingRows(d) ==
  DanglingRows(d) = [collectionItems |-> {}, itemTags |-> {}]

\* The step is a deleteCollection or deleteOrphanAttachments call.
DeleteStep ==
  AccessorStep /\ last'.op \in {"deleteCollection", "deleteOrphanAttachments"}

\* The collections and the items a step removed.
GoneCollections == DOMAIN db.collections \ DOMAIN db'.collections

GoneItems == DOMAIN db.items \ DOMAIN db'.items

\* C24 as stated: after a delete call no collectionItems row names a
\* collection the call removed, no collectionItems row and no itemTags row
\* names an item the call removed, and a call that starts without dangling
\* join rows ends without them.
C24_DeletesLeaveNoDanglingRows ==
  [][DeleteStep =>
       /\ \A r \in db'.collectionItems :
            r[2] \notin GoneCollections /\ r[1] \notin GoneItems
       /\ \A r \in db'.itemTags : r.itemID \notin GoneItems
       /\ NoDanglingRows(db) => NoDanglingRows(db')]_vars

\* C24 (amended): deleteCollection(C) leaves no collectionItems row that
\* names C, under any schema; deleteOrphanAttachments runs no statement on
\* collectionItems or itemTags, so that the rows of a removed attachment go
\* only where the schema cascades the delete of its items row: under the
\* strict schema a delete call that starts without dangling join rows ends
\* without them, under the lenient schema the rows of the removed attachment
\* are all still there.
C24_CascadeBySchema ==
  [][DeleteStep =>
       /\ \A r \in db'.collectionItems : r[2] \notin GoneCollections
       /\ Strict =>
            /\ \A r \in db'.collectionItems : r[1] \notin GoneItems
            /\ \A r \in db'.itemTags : r.itemID \notin GoneItems
            /\ NoDanglingRows(db) => NoDanglingRows(db')
       /\ (~Strict /\ last'.op = "deleteOrphanAttachments") =>
            /\ db'.collectionItems = db.collectionItems
            /\ db'.itemTags = db.itemTags]_vars

\* Attachment 6, filed and tagged, was removed as an orphan under the strict
\* schema, and its membership and its tag went with it.
C24_Witness ==
  /\ Strict
  /\ last.op = "deleteOrphanAttachments"
  /\ Succeeded(last)
  /\ last.ret.deleted > 0
  /\ 6 \notin DOMAIN db.items
  /\ <<6, 2>> \notin db.collectionItems
  /\ \A r \in db.itemTags : r.itemID # 6
  /\ <<6, 2>> \in file.collectionItems
  /\ NoDanglingRows(db)

ReadOps ==
  {"getSubcollections", "getItemTags", "getItemNotes", "findItemByDOI",
   "findSimilarByTags", "findDuplicates", "validateAttachments",
   "findOrphanAttachments", "rawQuery"}

\* C25: a read-side call on an open database returns its result (a raw
\* query: when it is a SELECT), also while Zotero is running or a sentinel
\* file exists, and leaves the image, the dirty flag, the backup state and
\* the file as they were.
C25_ReadsBypassGuard ==
  [][(AccessorStep /\ last'.op \in ReadOps) =>
       /\ (last'.op = "rawQuery" /\ last'.err = "OnlySelect")
            \/ Succeeded(last')
       /\ last'.err = "OnlySelect" =>
            UpperPiece(Head(Trim(last'.args[1]))) # "SELECT"
       /\ db' = db
       /\ hasUnsavedChanges' = hasUnsavedChanges
       /\ backupPath' = backupPath
       /\ backups' = backups
       /\ file' = file]_vars

\* A query answered in a writable session with unsaved changes while Zotero
\* is running and a sentinel file exists.
C25_Witness ==
  /\ connected
  /\ ~readonly
  /\ running
  /\ wal
  /\ hasUnsavedChanges
  /\ db # file
  /\ last.op = "getSubcollections"
  /\ last.args = <<1>>
  /\ Succeeded(last)
  /\ Len(last.ret) = 1
  /\ last.ret[1].collectionName = "c3"

\* The last call was a mutating call that was refused with a live-writer
\* error, and the image holds changes the file does not have.
RefusedWithChanges ==
  /\ connected
  /\ MutatingCall(last)
  /\ last.err \in LiveWriterErrors
  /\ db # file

\* The step writes to the file a table as the refused call left it.
WritesRefusedChanges ==
  /\ last'.wrote > 0
  /\ \E t \in DOMAIN db : db[t] # file[t] /\ file'[t] = db[t]

\* C26: once a mutating call has returned a live-writer error, what it
\* changed in the image is not written to the file afterwards, neither by
\* save() or the save of a later call nor by disconnect().
C26_RefusedChangesNeverWritten ==
  [][RefusedWithChanges => ~WritesRefusedChanges]_vars

\* C27: a disconnect() of a writable session with unsaved changes whose save
\* is refused (Zotero running or a sentinel file present) reports the
\* refusal to its caller; it does not return normally with the database
\* closed and the changes gone.
C27_DisconnectReportsRefusal ==
  [][(connected /\ ~connected' /\ ~readonly /\ hasUnsavedChanges
        /\ db # file /\ (isZoteroRunning \/ hasWALFiles)) =>
       last'.err \in LiveWriterErrors]_vars

\* C28: while a writable session is open and the object is not marked dirty,
\* the file holds exactly the in-memory image: no change of the image is
\* left behind a clean flag.
C28_CleanMeansSaved ==
  (connected /\ ~readonly /\ ~hasUnsavedChanges) => db = file

\* A call changed the image, its save overwrote the file and cleared the flag.
C28_Witness ==
  /\ connected /\ ~readonly /\ ~hasUnsavedChanges
  /\ MutatingCall(last) /\ last.err = "" /\ last.wrote = 1
  /\ session.writes > 0
  /\ db = file
  /\ \E i \in DOMAIN db.items : db.items[i].version > 0

\* C29: a mergeItems whose target matches no item returns success = false,
\* notes = 0, tags = 0 and the one error 'Target item not found', and creates
\* no tag, no item-tag row, no note and no item.
C29_UnknownTargetRefused ==
  [][(AccessorStep /\ last'.op = "mergeItems" /\ last'.err = ""
        /\ last'.args[1] \notin DOMAIN db.items) =>
       /\ last'.ret.success = FALSE
       /\ last'.ret.notes = 0
       /\ last'.ret.tags = 0
       /\ Len(last'.ret.errors) = 1
       /\ last'.ret.errors[1].error = "TargetNotFound"
       /\ db'.tags = db.tags
       /\ db'.itemTags = db.itemTags
       /\ db'.itemNotes = db.itemNotes
       /\ db'.items = db.items]_vars

\* The tag attachments of the item.
AttachmentsOf(d, itemID) == {r \in d.itemTags : r.itemID = itemID}

\* A merge into an existing target in which no transfer failed.
CleanMergeStep ==
  /\ AccessorStep
  /\ last'.op = "mergeItems"
  /\ Succeeded(last')
  /\ last'.args[1] \in DOMAIN db.items
  /\ last'.ret.errors = <<>>

\* C30 as stated: transferred.tags of a merge is the number of tag
\* attachments the target did not have before the call and has after it.
C30_CountsNewAttachments ==
  [][CleanMergeStep =>
       LET t == last'.args[1]
       IN last'.ret.tags
            = Cardinality(AttachmentsOf(db', t) \ AttachmentsOf(db, t))]_vars

\* C30: transferred.tags of a merge in which no transfer failed counts every
\* tag attachment of every source other than the target, the ones whose tag
\* the target already carries and the ones two sources share included, so it
\* is never less than the number of attachments the target gained; the
\* target gains one attachment per tag name it did not carry, and its
\* version rises by one per attachment gained and one per note transferred,
\* not by one per tag counted.
C30_CountsSourceAttachments ==
  [][CleanMergeStep =>
       LET t == last'.args[1]
           srcs == OtherSources(t, last'.args[2])
           gained == AttachmentsOf(db', t) \ AttachmentsOf(db, t)
           names == UNION {TagNamesOf(db, srcs[k]) : k \in 1..Len(srcs)}
       IN /\ last'.ret.tags = SourceTags(db, srcs)
          /\ last'.ret.tags >= Cardinality(gained)
          /\ Cardinality(gained) = Cardinality(names \ TagNamesOf(db, t))
          /\ db'.items[t].version
               = db.items[t].version + Cardinality(gained) + last'.ret.notes]_vars

\* Sources 2 and 3 share tag t1: three tags counted, two attachments gained,
\* the version of the target raised by the two attachments and the one note.
C30_Witness ==
  /\ last.op = "mergeItems"
  /\ Succeeded(last)
  /\ last.args = <<1, <<2, 3>>>>
  /\ last.ret.errors = <<>>
  /\ last.ret.tags = 3
  /\ last.ret.notes = 1
  /\ Cardinality(AttachmentsOf(db, 1)) = 2
  /\ Cardinality(AttachmentsOf(file, 1)) = 2
  /\ db.items[1].version = 3

====
